---- MODULE Spec2Model ----
(***************************************************************************)
(* SimpleDistGradAggregator: distributed gradient aggregation for          *)
(* data-parallel training.  Every rank owns one aggregator; the ranks meet *)
(* in the collectives of AggregateGradientsImpl.                           *)
(***************************************************************************)
EXTENDS Integers, Sequences, FiniteSets, TLC

(* ------------------------------ bounds -------------------------------- *)
\* AggregateGradients calls made by one rank
MaxIter == 2
\* largest world size (NumNodesInUse)
MaxProc == 2
\* gradient tensors handed to the aggregator; tensor i has i elements
NumGrads == 2
\* AsyncAggregateGradHeader calls made by one rank
MaxHdrCalls == 1

(* ------------------------- program constants --------------------------- *)
\* sizeof(ElemType), float
ElemSize == 4
\* number of eval nodes of every header
NumEvalNode == 1
CPUDEVICE == 0 - 1
GPU0 == 0
\* (size_t) -1, the entry of m_gradientIndexToAggregate that stands for the packed buffer
NONE == 0 - 1
\* a null unique_ptr / pointer
NULL == [null |-> TRUE]
\* no value returned yet
NoRet == "none"
Ret(b) == IF b THEN "true" ELSE "false"
\* an invalid std::future
NoTask == 0

VARIABLES
    \* the MPI / NCCL / device environment, fixed at construction
    numProc, mainRank, ncclSupported, useGpuGdr, deviceId, allocFails,
    m_useAsyncAggregation, m_packThresholdSizeInBytes,
    \* the transport call that reports failure when it is made, if any
    failingCall,
    \* what the caller may pass in a gradient list besides its dense tensors of the
    \* first call: a sparse tensor, a tensor of another shape, another tensor object
    inputFaults,
    \* the caller of each rank: its tensors, its header, where it is
    gradients, headerCPU, resetState, pc, retval, calls,
    \* the header each rank hands to AsyncAggregateGradHeader, and what that returns
    statsHeader, statsRetval, hdrCalls,
    \* history: the reset flag of the calls that only some ranks have made so far, and
    \* the header each rank passed to each of its AggregateGradients calls
    resetFlags, submitted,
    \* the Matrix* of the list each rank passed to its last call: the tensor objects
    \* of the first call are 1 .. NumGrads, the key of their shadows
    handles,
    \* how far the destruction of each rank's aggregator has got
    lifetime,
    \* the arguments each rank passed to DistributedCheck, and what that returned
    checkArgs, checkRetval,
    \* whether DistributedInit has run on each rank, the tensor and the operation each
    \* rank passed to DistributedAllReduce, and how that call ended
    distInit, distMatrix, distOp, distOutcome,
    \* threadsafe_queue: its mutex (the thread that holds it), its queue, and the
    \* threads blocked in its condition variable
    mut, data_queue, data_cond,
    \* the threads that use the queue: where each is in its operation, the operation
    \* and its argument, its output argument and what the operation returned
    qpc, qop, value, qret,
    \* history: the values in the order in which they were pushed and popped
    pushed, popped,
    \* ASYNCMPI: the stop flag, where the producer and BackpropAsyncMpiThread are, the
    \* nodes passed to AsyncAggreagateGradients and the nodes reduced, in order
    asyncMpiFlag, tpc, offered, reducedNodes,
    \* RunDynamiteTests: the configuration and the case DynamiteTest is at, its seed and
    \* its numFailed, the numFailed of RunDynamiteTests, how the run ended, the error of
    \* the last case and the number of gradient lines it logged
    testConfig, testIndex, seed, numFailed, runNumFailed, testResult, avSqrErr,
    gradientLog,
    \* the aggregator of each rank
    m_initialized, m_iterationCount, m_nccl,
    m_bufferedGradients, m_bufferedGradHeader,
    m_pendingAsyncAggregation, tasks,
    m_packedGradientsIndex, m_gradientIndexToAggregate, m_aggregationBuffer,
    m_intermediateCPUBuffers, m_recvHeaders,
    \* the locals of the AggregateGradientsImpl in progress
    impl

envVars == <<numProc, mainRank, ncclSupported, useGpuGdr, deviceId, allocFails,
             m_useAsyncAggregation, m_packThresholdSizeInBytes, failingCall,
             inputFaults>>
callerVars == <<gradients, headerCPU, resetState, pc, retval, calls, statsHeader,
                statsRetval, hdrCalls>>
checkVars == <<checkArgs, checkRetval>>
distVars == <<distInit, distMatrix, distOp, distOutcome>>
queueVars == <<mut, data_queue, data_cond, qpc, qop, value, qret, pushed, popped>>
threadVars == <<asyncMpiFlag, tpc, offered, reducedNodes>>
testVars == <<testConfig, testIndex, seed, numFailed, runNumFailed, testResult, avSqrErr,
              gradientLog>>
auxVars == <<checkVars, distVars, queueVars, threadVars, testVars>>
histVars == <<resetFlags, submitted, handles, lifetime, auxVars>>
initVars == <<m_initialized, m_packedGradientsIndex, m_gradientIndexToAggregate>>
asyncVars == <<m_bufferedGradients, m_bufferedGradHeader, m_pendingAsyncAggregation, tasks>>
bufVars == <<m_aggregationBuffer, m_intermediateCPUBuffers, m_recvHeaders>>
vars == <<envVars, callerVars, histVars, initVars, m_iterationCount, m_nccl, asyncVars,
          bufVars, impl>>

Ranks == 0 .. (numProc - 1)
NumProc == numProc
IsMainNode(r) == r = mainRank

(* ------------------------------ Matrix --------------------------------- *)
\* GetMatrixType()
DENSE == "DENSE"
SPARSE == "SPARSE"
\* a dense matrix: its shape, its type and its elements in column-major order
NewMatrix(rows, cols) == [numRows |-> rows, numCols |-> cols, matrixType |-> DENSE,
                          data |-> [j \in 1 .. rows * cols |-> 0]]
GetNumElements(m) == m.numRows * m.numCols
SetValue(m, v) == [m EXCEPT !.data = [j \in 1 .. Len(m.data) |-> v]]
\* ColumnSlice(offset, n) of a one-row matrix: the elements offset+1 .. offset+n
ColumnSlice(m, offset, n) == [j \in 1 .. n |-> m.data[offset + j]]
\* ColumnSlice(offset, n).AssignValuesOf(src): overwrite that slice
AssignColumnSlice(m, offset, src) ==
    [m EXCEPT !.data = [j \in 1 .. Len(m.data) |->
        IF j > offset /\ j <= offset + Len(src) THEN src[j - offset] ELSE m.data[j]]]
\* AssignValuesOf(slice.Reshaped(rows, cols)): column-major order is kept
AssignValuesOf(m, src) == [m EXCEPT !.data = src]

(* --------------------------- DistGradHeader ---------------------------- *)
HeaderCreate(n) == [numSamples |-> 0, numSamplesWithLabel |-> 0, criterion |-> 0,
                    evalErrors |-> [e \in 1 .. n |-> <<0, 0>>]]
HeaderClear(h) == HeaderCreate(Len(h.evalErrors))
\* criterion and the first component of an eval error are floating-point numbers:
\* a sum is rounded to Mantissa significant bits, to nearest and ties to even.  The
\* format is a double's with a short mantissa; non-negative integers below FExact are
\* exact
Mantissa == 10
FExact == 2 ^ Mantissa
\* the spacing of the representable numbers at x, from spacing step upwards
RECURSIVE Ulp(_, _)
Ulp(x, step) == IF x < FExact * step THEN step ELSE Ulp(x, 2 * step)
FRound(x) ==
    LET step == Ulp(x, 1)
        q == x \div step
        rest == x % step
    IN IF 2 * rest < step THEN q * step
       ELSE IF 2 * rest > step THEN (q + 1) * step
       ELSE IF q % 2 = 0 THEN q * step ELSE (q + 1) * step
FAdd(a, b) == FRound(a + b)
\* an aggregate that keeps the other header only
HeaderAggregateOverwrite(h, other) == other
\* Aggregate(other): elementwise sum of all numeric fields
HeaderAggregate(h, other) ==
    [numSamples |-> h.numSamples + other.numSamples,
     numSamplesWithLabel |-> h.numSamplesWithLabel + other.numSamplesWithLabel,
     criterion |-> FAdd(h.criterion, other.criterion),
     evalErrors |-> [e \in 1 .. Len(h.evalErrors) |->
        <<FAdd(h.evalErrors[e][1], other.evalErrors[e][1]),
          h.evalErrors[e][2] + other.evalErrors[e][2]>>]]


(* ------------------------- inputs of one call -------------------------- *)
\* what the optimizer of rank r writes into tensor i (0-based) before call k:
\* distinct per rank, call and element, never zero
GradValue(r, k, i, j) == 1000 * k + 100 * (r + 1) + 10 * i + j
FreshGradient(r, k, i) ==
    [numRows |-> 1, numCols |-> i + 1, matrixType |-> DENSE,
     data |-> [j \in 1 .. i + 1 |-> GradValue(r, k, i, j)]]
FreshGradients(r, k) == [p \in 1 .. NumGrads |-> FreshGradient(r, k, p - 1)]
\* the list with the tensor at position p (1-based) sparse
WithSparse(g, p) == [g EXCEPT ![p].matrixType = SPARSE]
\* the list with the tensor at position p resized to 1 x 1
WithResized(g, p) == [g EXCEPT ![p] = [@ EXCEPT !.numCols = 1, !.data = <<@[1]>>]]
\* the tensor objects of the first call, and a tensor object no call has passed
KnownHandles == [p \in 1 .. NumGrads |-> p]
NewHandle == NumGrads + 1
\* the tensor objects rank r may pass to call k
HandleLists(r, k) ==
    {KnownHandles} \cup (IF "handle" \in inputFaults /\ k >= 2
                         THEN {[KnownHandles EXCEPT ![p] = NewHandle] : p \in 1 .. NumGrads}
                         ELSE {})
\* the gradient lists rank r may pass to call k
GradientLists(r, k) ==
    LET g == FreshGradients(r, k) IN
    {g} \cup (IF "sparse" \in inputFaults
              THEN {WithSparse(g, p) : p \in 1 .. NumGrads} ELSE {})
        \cup (IF "shape" \in inputFaults /\ k >= 2
              THEN {WithResized(g, p) : p \in 2 .. NumGrads} ELSE {})
\* the header of a rank that processed samples in call k
FreshHeader(r, k) ==
    [numSamples |-> 10 * k + r + 1, numSamplesWithLabel |-> 10 * k + r + 2,
     criterion |-> 100 * k + r + 3,
     evalErrors |-> [e \in 1 .. NumEvalNode |-> <<20 * k + r + 4, 30 * k + r + 5>>]]
\* the header of a rank whose criterion is large on rank 0 and small on the others,
\* so that a sum of the two is not representable
LargeHeader(r, k) ==
    [FreshHeader(r, k) EXCEPT !.criterion = IF r = 0 THEN FExact ELSE 1]
\* a rank without samples has an all-zero header (asserted by AggregateGradientsImpl)
Headers(r, k) ==
    {IF "large" \in inputFaults THEN LargeHeader(r, k) ELSE FreshHeader(r, k),
     HeaderCreate(NumEvalNode)}
PackThresholds == {0} \cup {ElemSize * n : n \in 1 .. NumGrads}

(* ----------------------------- ResetState ------------------------------ *)
ShouldCopyDataToCPU(dev) ==
    IF dev = CPUDEVICE THEN FALSE
    ELSE IF ncclSupported \/ useGpuGdr THEN FALSE
    ELSE TRUE

\* a test that leaves out gradients of exactly the threshold size
PackBelowThreshold(m) ==
    ~m_useAsyncAggregation /\ ElemSize * GetNumElements(m) < m_packThresholdSizeInBytes

\* the test of the classification loop
ShouldPack(m) ==
    ~m_useAsyncAggregation /\ ElemSize * GetNumElements(m) <= m_packThresholdSizeInBytes

\* the classification loop of ResetState over positions i .. N-1
RECURSIVE ClassifyFrom(_, _, _)
ClassifyFrom(g, i, acc) ==
    IF i >= Len(g) THEN acc
    ELSE IF ShouldPack(g[i + 1])
         THEN ClassifyFrom(g, i + 1,
                [acc EXCEPT !.packed = Append(@, i),
                            !.size = @ + GetNumElements(g[i + 1])])
         ELSE ClassifyFrom(g, i + 1, [acc EXCEPT !.agg = Append(@, i)])
Classify(g) == ClassifyFrom(g, 0, [packed |-> <<>>, agg |-> <<>>, size |-> 0])

\* new (std::nothrow) Matrix(1, size): null when the allocation fails
AllocAggregationBuffer(size) ==
    IF size > 0 /\ ~allocFails THEN NewMatrix(1, size) ELSE NULL

\* a fallback that pushes the positions without clearing the list first
RefillWithoutClear(agg, n) == agg \o [p \in 1 .. n |-> p - 1]

\* the fallback: m_gradientIndexToAggregate.clear(), then push_back(i) for every i
RefillStandalone(agg, n) == [p \in 1 .. n |-> p - 1]

\* the sentinel put behind the standalone positions
ReserveLast(agg) == Append(agg, NONE)

\* m_gradientIndexToAggregate.insert(begin(), 1, (size_t) -1): the first element is
\* reserved for the contiguous buffer
ReserveFirst(agg) == <<NONE>> \o agg

\* a loop that allocates no slot for the contiguous buffer
BuffersForGradientsOnly(agg, size, g) ==
    LET own == SelectSeq(agg, LAMBDA e : e # NONE) IN
    [s \in 1 .. Len(own) |-> [j \in 1 .. GetNumElements(g[own[s] + 1]) |-> 0]]

\* for (size_t i : m_gradientIndexToAggregate): one data transferer and one pinned
\* buffer per entry, of the packed total for the entry -1 and of the element count
\* of the gradient otherwise
IntermediateBuffers(agg, size, g) ==
    [s \in 1 .. Len(agg) |->
        [j \in 1 .. (IF agg[s] = NONE THEN size ELSE GetNumElements(g[agg[s] + 1])) |-> 0]]

\* the state ResetState builds on the first call
InitState(g, r) ==
    LET c == Classify(g)
        buf == AllocAggregationBuffer(c.size)
        agg == IF buf = NULL THEN RefillStandalone(c.agg, Len(g))
               ELSE ReserveFirst(c.agg)
        packed == IF buf = NULL THEN <<>> ELSE c.packed
        size == IF buf = NULL THEN 0 ELSE c.size
    IN [packed |-> packed, agg |-> agg, buf |-> buf,
        cpu |-> IF ShouldCopyDataToCPU(deviceId)
                THEN IntermediateBuffers(agg, size, g)
                ELSE <<>>,
        shadows |-> IF m_useAsyncAggregation
                    THEN [p \in 1 .. Len(g) |-> NewMatrix(g[p].numRows, g[p].numCols)]
                    ELSE <<>>,
        shadowHeader |-> IF m_useAsyncAggregation THEN HeaderClear(HeaderCreate(NumEvalNode))
                         ELSE NULL,
        recv |-> IF IsMainNode(r) THEN [s \in 1 .. NumProc - 1 |-> HeaderCreate(NumEvalNode)]
                 ELSE <<>>]

\* if (gradients[i]->GetMatrixType() != DENSE) RuntimeError(...): the first position
\* (1-based) at which the loop finds a tensor that is not dense, 0 when it finds none
FirstSparse(g) ==
    IF \A p \in 1 .. Len(g) : g[p].matrixType = DENSE THEN 0
    ELSE CHOOSE p \in 1 .. Len(g) :
            /\ g[p].matrixType # DENSE
            /\ \A q \in 1 .. (p - 1) : g[q].matrixType = DENSE

\* what the classification loop has built when it raises the error at position p:
\* the positions up to p are classified, the shadows before p exist
InitStateUpTo(g, p) ==
    LET c == Classify(SubSeq(g, 1, p)) IN
    [packed |-> c.packed, agg |-> c.agg,
     shadows |-> IF m_useAsyncAggregation
                 THEN [q \in 1 .. (p - 1) |-> NewMatrix(g[q].numRows, g[q].numCols)]
                 ELSE <<>>]

\* a reset branch without the check
NoPendingCheck(r) == FALSE

\* a check that finds only a task that is still running
PendingStillRunning(r) == m_pendingAsyncAggregation[r] \in tasks[r]
\* the check that opens the reset branch of ResetState
ResetFindsPending(r) ==
    m_useAsyncAggregation /\ m_pendingAsyncAggregation[r] # NoTask

\* a reset that leaves the shadows as they are
KeepShadows(shadows) == shadows

\* m_bufferedGradients[gradients[i]]->SetValue(0) for every i
ZeroShadows(shadows) == [p \in 1 .. Len(shadows) |-> SetValue(shadows[p], 0)]

\* m_bufferedGradients[gradients[i]]: the shadow kept for a tensor object, null for
\* an object that has none
BufferedGradient(shadows, id) == IF id \in 1 .. Len(shadows) THEN shadows[id] ELSE NULL

\* the first position (1-based) of the list whose tensor object has no shadow, 0 when
\* every one has
FirstUnbuffered(shadows, hs) ==
    IF \A p \in 1 .. Len(hs) : BufferedGradient(shadows, hs[p]) # NULL THEN 0
    ELSE CHOOSE p \in 1 .. Len(hs) :
            /\ BufferedGradient(shadows, hs[p]) = NULL
            /\ \A q \in 1 .. (p - 1) : BufferedGradient(shadows, hs[q]) # NULL

\* the zeroing loop over the positions 1 .. n of the list, stepping over a null shadow
ZeroListed(shadows, hs, n) ==
    [id \in 1 .. Len(shadows) |->
        IF \E q \in 1 .. n : hs[q] = id THEN SetValue(shadows[id], 0) ELSE shadows[id]]

\* a test that also sends a call with resetState into the initialization
InitOnReset(r, reset) == ~m_initialized[r] \/ reset

\* if (!m_initialized): the initialization runs when the aggregator has not been
\* initialized, whatever resetState is
NeedsInit(r, reset) == ~m_initialized[r]

\* how a call ends: it returns, it raises RuntimeError or LogicError, or the process
\* is killed on a null pointer
Returned == "return"
Errors == {"RuntimeError", "LogicError"}
Killed == "killed"
Outcomes == {Returned, Killed} \cup Errors

\* ResetState(g, numEvalNodes, reset) on rank r, g the tensors and hs the tensor
\* objects of the list; outcome is how it ends
ResetState(r, g, hs, reset, outcome) ==
    IF NeedsInit(r, reset) /\ FirstSparse(g) # 0
    THEN LET s == InitStateUpTo(g, FirstSparse(g)) IN
         /\ outcome = "RuntimeError"
         /\ m_initialized' = [m_initialized EXCEPT ![r] = TRUE]
         /\ m_packedGradientsIndex' = [m_packedGradientsIndex EXCEPT ![r] = s.packed]
         /\ m_gradientIndexToAggregate' = [m_gradientIndexToAggregate EXCEPT ![r] = s.agg]
         /\ m_bufferedGradients' = [m_bufferedGradients EXCEPT ![r] = s.shadows]
         /\ UNCHANGED <<bufVars, m_bufferedGradHeader>>
    ELSE IF NeedsInit(r, reset)
    THEN LET s == InitState(g, r) IN
         /\ outcome = Returned
         /\ m_initialized' = [m_initialized EXCEPT ![r] = TRUE]
         /\ m_packedGradientsIndex' = [m_packedGradientsIndex EXCEPT ![r] = s.packed]
         /\ m_gradientIndexToAggregate' = [m_gradientIndexToAggregate EXCEPT ![r] = s.agg]
         /\ m_aggregationBuffer' = [m_aggregationBuffer EXCEPT ![r] = s.buf]
         /\ m_intermediateCPUBuffers' = [m_intermediateCPUBuffers EXCEPT ![r] = s.cpu]
         /\ m_bufferedGradients' = [m_bufferedGradients EXCEPT ![r] = s.shadows]
         /\ m_bufferedGradHeader' = [m_bufferedGradHeader EXCEPT ![r] = s.shadowHeader]
         /\ m_recvHeaders' = [m_recvHeaders EXCEPT ![r] = @ \o s.recv]
    ELSE /\ UNCHANGED <<initVars, bufVars>>
         /\ IF reset /\ ResetFindsPending(r)
            THEN /\ outcome = "LogicError"
                 /\ UNCHANGED <<m_bufferedGradients, m_bufferedGradHeader>>
            ELSE IF reset /\ m_useAsyncAggregation
                    /\ FirstUnbuffered(m_bufferedGradients[r], hs) # 0
            \* ->SetValue(0) through a null unique_ptr: the process is killed there, or
            \* the call has no effect and the loop goes on
            THEN LET p == FirstUnbuffered(m_bufferedGradients[r], hs) IN
                 \/ /\ outcome = Killed
                    /\ m_bufferedGradients' = [m_bufferedGradients EXCEPT ![r] =
                            ZeroListed(@, hs, p - 1)]
                    /\ UNCHANGED m_bufferedGradHeader
                 \/ /\ outcome = Returned
                    /\ m_bufferedGradients' = [m_bufferedGradients EXCEPT ![r] =
                            ZeroListed(@, hs, Len(hs))]
                    /\ m_bufferedGradHeader' = [m_bufferedGradHeader EXCEPT ![r] =
                            HeaderClear(@)]
            ELSE /\ outcome = Returned
                 /\ IF reset /\ m_useAsyncAggregation
                    THEN /\ m_bufferedGradients' = [m_bufferedGradients EXCEPT ![r] =
                                ZeroShadows(@)]
                         /\ m_bufferedGradHeader' = [m_bufferedGradHeader EXCEPT ![r] =
                                HeaderClear(@)]
                    ELSE UNCHANGED <<m_bufferedGradients, m_bufferedGradHeader>>

(* ------------------------ AggregateGradientsImpl ----------------------- *)
\* The ranks move through the pipeline together, from collective to collective.
\* A rank works on the tensors and the header it was passed: the caller's in sync
\* mode, the shadows in async mode.
RECURSIVE SumTo(_, _)
SumTo(f, n) == IF n < 0 THEN 0 ELSE f[n] + SumTo(f, n - 1)
RankSum(f) == SumTo(f, NumProc - 1)

ImplGradients(r) == IF m_useAsyncAggregation THEN m_bufferedGradients[r] ELSE gradients[r]
ImplHeader(r) == IF m_useAsyncAggregation THEN m_bufferedGradHeader[r] ELSE headerCPU[r]
Working(r) == [g |-> ImplGradients(r), h |-> ImplHeader(r), buf |-> m_aggregationBuffer[r],
               cpu |-> m_intermediateCPUBuffers[r]]
\* write the tensors, buffers and slots of every rank back
Store(w) ==
    /\ IF m_useAsyncAggregation
       THEN /\ m_bufferedGradients' = [r \in Ranks |-> w[r].g]
            /\ UNCHANGED gradients
       ELSE /\ gradients' = [r \in Ranks |-> w[r].g]
            /\ UNCHANGED m_bufferedGradients
    /\ m_aggregationBuffer' = [r \in Ranks |-> w[r].buf]
    /\ m_intermediateCPUBuffers' = [r \in Ranks |-> w[r].cpu]
StoreHeaders(h) ==
    IF m_useAsyncAggregation
    THEN m_bufferedGradHeader' = h /\ UNCHANGED headerCPU
    ELSE headerCPU' = h /\ UNCHANGED m_bufferedGradHeader

\* a rank that processed no samples zeroes its gradients first
ZeroIfNoSamples(l) ==
    IF l.h.numSamples = 0
    THEN [l EXCEPT !.g = [p \in 1 .. Len(l.g) |-> SetValue(l.g[p], 0)]]
    ELSE l

\* a pack loop that copies nothing
PackNothing(l, r) == l

\* copy the packed gradients into the contiguous buffer, advancing the offset
RECURSIVE PackFrom(_, _, _, _)
PackFrom(l, packed, k, offset) ==
    IF k > Len(packed) THEN l
    ELSE LET m == l.g[packed[k] + 1] IN
         PackFrom([l EXCEPT !.buf = AssignColumnSlice(l.buf, offset, m.data)],
                  packed, k + 1, offset + GetNumElements(m))
Pack(l, r) == PackFrom(l, m_packedGradientsIndex[r], 1, 0)
\* a copy back that reads every slice at offset 0
UnpackAtZero(l, r) ==
    [l EXCEPT !.g = [p \in 1 .. Len(@) |->
        IF \E k \in 1 .. Len(m_packedGradientsIndex[r]) : m_packedGradientsIndex[r][k] = p - 1
        THEN AssignValuesOf(@[p], ColumnSlice(l.buf, 0, GetNumElements(@[p])))
        ELSE @[p]]]
\* copy the slices of the contiguous buffer back to the packed gradients
RECURSIVE UnpackFrom(_, _, _, _)
UnpackFrom(l, packed, k, offset) ==
    IF k > Len(packed) THEN l
    ELSE LET m == l.g[packed[k] + 1] IN
         UnpackFrom([l EXCEPT !.g[packed[k] + 1] =
                        AssignValuesOf(m, ColumnSlice(l.buf, offset, GetNumElements(m)))],
                    packed, k + 1, offset + GetNumElements(m))
Unpack(l, r) == UnpackFrom(l, m_packedGradientsIndex[r], 1, 0)

\* the tensor an entry of m_gradientIndexToAggregate stands for
EntryMatrix(l, e) == IF e = NONE THEN l.buf ELSE l.g[e + 1]
SetEntryData(l, e, d) ==
    IF e = NONE THEN [l EXCEPT !.buf.data = d] ELSE [l EXCEPT !.g[e + 1].data = d]

\* MPI_Allreduce / MPI_Iallreduce / ncclAllReduce with MPI_SUM over the first
\* count elements of each rank's buffer; data[q] is the buffer of rank q
AllReduce(data, count, r) ==
    [j \in 1 .. Len(data[r]) |->
        IF j <= count THEN RankSum([q \in Ranks |-> data[q][j]]) ELSE data[r][j]]

\* the if-chain that selects the reduction strategy
TransportBranch ==
    IF ~useGpuGdr /\ deviceId # CPUDEVICE /\ ~ncclSupported THEN "staged"
    ELSE IF ~ncclSupported
         THEN (IF ~useGpuGdr THEN "iallreduce"
               ELSE IF deviceId # CPUDEVICE THEN "allreduce"
               ELSE "skip")
         ELSE "nccl"

\* a broadcast that is left out: every rank keeps its own header
BcastDropped(h, root) == h

\* MPI_Bcast of the header from the root: every rank ends with the root's bytes
Bcast(h, root) == [r \in Ranks |-> h[root]]

\* return (headerCPU->numSamples != 0)
SamplesProcessed(h) == h.numSamples # 0

\* a receive that does not skip the main rank's own position
RecvSourceNoSkip(j, myRank) == j

\* source rank of the receive posted for slot j (0-based) on the main rank
RecvSource(j, myRank) == IF j >= myRank THEN j + 1 ELSE j

MPI_UNDEFINED == 0 - 32766
\* a wait-any that finds no active request
WaitanyNoneActive(active) == {MPI_UNDEFINED}
\* MPI_Waitany: the index of some request that completes, MPI_UNDEFINED when the
\* list holds no active request; under the fault "none" it may report MPI_UNDEFINED
\* with requests still active, the case the loop's `break` provides for
Waitany(active) ==
    IF active = {} THEN {MPI_UNDEFINED}
    ELSE active \cup (IF "none" \in inputFaults THEN {MPI_UNDEFINED} ELSE {})

\* reductions lists the all-reduce operations issued so far: the strategy that issued
\* each, the entry of m_gradientIndexToAggregate it reduces, and its element count.
\* events lists, in program order, the transport calls, copies and waits of the
\* aggregation in progress or, between two aggregations, of the last one
NoImpl == [stage |-> "idle", i |-> 0, gpuToCpuIndex |-> 0, allReduceIndex |-> 0,
           currentGradientIndex |-> 0, recvHeaderRequests |-> {},
           numNodesHeadersReceivedFrom |-> 0, reductions |-> <<>>, events |-> <<>>]
\* a call of the pipeline on the request, slot, transferer or position index
Event(kind, index) == [kind |-> kind, index |-> index]
\* one all-reduce over count elements of entry e
Reduction(strategy, e, count) == [strategy |-> strategy, entry |-> e, count |-> count]

\* the wait-any loop runs while numNodesHeadersReceivedFrom < NumProc() - 1
AfterReduce == IF 0 < NumProc - 1 THEN "fold" ELSE "finish"

\* rank r is inside AggregateGradientsImpl: called inline, or run by its task
InPipeline(r) == IF m_useAsyncAggregation THEN tasks[r] # {} ELSE pc[r] = "impl"

\* the transport calls of AggregateGradientsImpl
NoFailure == "none"
TransportCalls == {"Irecv", "Isend", "Iallreduce", "AllReduce", "Waitany", "Wait",
                   "Bcast", "ncclAllReduce", "ncclSync"}
\* the call reports failure
Reports(call) == failingCall = call

\* `|| MpiFail(...)` after a call that reported failure: fatal, the aggregation ends
\* where it is and nothing is returned
MpiFail ==
    /\ pc' = [r \in Ranks |-> "fatal"]
    /\ impl' = [impl EXCEPT !.stage = "failed"]
    /\ UNCHANGED <<envVars, gradients, headerCPU, resetState, retval, calls, statsHeader,
                   statsRetval, hdrCalls, histVars, initVars, m_iterationCount, m_nccl,
                   asyncVars, bufVars>>

\* the calls up to the reductions: the pack loop, the receives of the main rank, the
\* send of the other ranks
BeginEvents ==
    [k \in 1 .. Len(m_packedGradientsIndex[mainRank]) |->
        Event("Pack", m_packedGradientsIndex[mainRank][k])]
    \o [j \in 1 .. (NumProc - 1) |-> Event("Irecv", j - 1)]
    \o (IF NumProc > 1 THEN <<Event("Isend", 0)>> ELSE <<>>)

\* entry: zero the gradients of a rank without samples, pack, post the header
\* receives on the main rank and the header sends on the others
ImplBegin ==
    /\ impl.stage = "idle"
    /\ \A r \in Ranks : InPipeline(r)
    /\ IF Reports("Irecv") \/ Reports("Isend")
       THEN MpiFail
       ELSE /\ Store([r \in Ranks |-> Pack(ZeroIfNoSamples(Working(r)), r)])
            /\ impl' = [NoImpl EXCEPT
                         !.stage = IF Len(m_gradientIndexToAggregate[mainRank]) > 0
                                   THEN "reduce" ELSE AfterReduce,
                         !.i = 1,
                         !.recvHeaderRequests = 0 .. (NumProc - 2),
                         !.events = BeginEvents]
            /\ UNCHANGED <<envVars, headerCPU, m_bufferedGradHeader, resetState, pc, retval,
                           calls, statsHeader, statsRetval, hdrCalls, histVars, initVars,
                           m_iterationCount, m_nccl, m_pendingAsyncAggregation, tasks,
                           m_recvHeaders>>

\* D-to-H copy of the elements of entry e into pinned slot s (0-based)
CopyGPUToCPU(l, e, s) ==
    LET src == EntryMatrix(l, e).data IN
    [l EXCEPT !.cpu[s + 1] = [j \in 1 .. Len(@) |-> IF j <= Len(src) THEN src[j] ELSE @[j]]]

\* one round of the staged loop on rank r (the first one after the synchronous
\* copy of entry 0); sums[j] is what the all-reduce leaves in element j of the slot
StagedRound(l, r, sums) ==
    LET idx == m_gradientIndexToAggregate[r]
        i == impl.i
        cur == IF i = 1 THEN idx[1] ELSE impl.currentGradientIndex
        count == GetNumElements(EntryMatrix(l, cur))
        ar == impl.allReduceIndex
        reduced == [l EXCEPT !.cpu[ar + 1] =
                     [j \in 1 .. Len(@) |-> IF j <= count THEN sums[j] ELSE @[j]]]
    IN SetEntryData(reduced, cur,
         [j \in 1 .. Len(EntryMatrix(reduced, cur).data) |->
            IF j <= count THEN reduced.cpu[ar + 1][j]
            ELSE EntryMatrix(reduced, cur).data[j]])

\* a loop that issues the copy of the next entry after the all-reduce
StagedEventsCopyLate(i, n, gpuToCpuIndex, allReduceIndex) ==
    (IF i = 1 THEN <<Event("cudaMemcpyDeviceToHost", 0)>> ELSE <<>>)
    \o <<Event("WaitForCopyGPUToCPUAsync", allReduceIndex),
         Event("AllReduce", allReduceIndex),
         Event("CopyCPUToGPUAsync", allReduceIndex)>>
    \o (IF i < n THEN <<Event("CopyGPUToCPUAsync", gpuToCpuIndex)>> ELSE <<>>)

\* the calls of loop iteration i of n, with the synchronous copy of entry 0 before
\* the first: gpuToCpuIndex is the transferer of the next copy, allReduceIndex the
\* slot that is reduced
StagedEvents(i, n, gpuToCpuIndex, allReduceIndex) ==
    (IF i = 1 THEN <<Event("cudaMemcpyDeviceToHost", 0)>> ELSE <<>>)
    \o (IF i < n THEN <<Event("CopyGPUToCPUAsync", gpuToCpuIndex)>> ELSE <<>>)
    \o <<Event("WaitForCopyGPUToCPUAsync", allReduceIndex),
         Event("AllReduce", allReduceIndex),
         Event("CopyCPUToGPUAsync", allReduceIndex)>>

\* staged pipeline, loop iteration impl.i: issue the copy of the next entry, wait
\* for the copy of the current one, all-reduce its slot, copy the slot back
ReduceStaged ==
    /\ impl.stage = "reduce"
    /\ TransportBranch = "staged"
    /\ LET i == impl.i
           n == Len(m_gradientIndexToAggregate[mainRank])
           g2c0 == IF i = 1 THEN 1 ELSE impl.gpuToCpuIndex
           ar == IF i = 1 THEN 0 ELSE impl.allReduceIndex
           Cur(r) == IF i = 1 THEN m_gradientIndexToAggregate[r][1]
                     ELSE impl.currentGradientIndex
           Next(r) == IF i < n THEN m_gradientIndexToAggregate[r][i + 1]
                      ELSE IF i = 1 THEN 0 ELSE Cur(r)
           first == [r \in Ranks |->
                        IF i = 1 THEN CopyGPUToCPU(Working(r), Cur(r), 0) ELSE Working(r)]
           copied == [r \in Ranks |->
                        IF i < n THEN CopyGPUToCPU(first[r], Next(r), g2c0) ELSE first[r]]
           count == GetNumElements(EntryMatrix(copied[mainRank], Cur(mainRank)))
           sums == [j \in 1 .. count |->
                        RankSum([q \in Ranks |-> copied[q].cpu[ar + 1][j]])]
           \* what m_mpi->AllReduce returns is not looked at: after a failure the
           \* round goes on with the slot as it is
           Slot(r) == IF Reports("AllReduce")
                      THEN [j \in 1 .. count |-> copied[r].cpu[ar + 1][j]] ELSE sums
       IN /\ Store([r \in Ranks |->
                     StagedRound(copied[r], r, Slot(r))])
          /\ impl' = [impl EXCEPT !.i = i + 1,
                                  !.allReduceIndex = g2c0,
                                  !.gpuToCpuIndex = g2c0 + 1,
                                  !.currentGradientIndex = Next(mainRank),
                                  !.reductions = Append(@,
                                      Reduction("staged", Cur(mainRank), count)),
                                  !.events = @ \o StagedEvents(i, n, g2c0, ar),
                                  !.stage = IF i >= n THEN AfterReduce ELSE "reduce"]
    /\ UNCHANGED <<envVars, headerCPU, m_bufferedGradHeader, resetState, pc, retval, calls,
                   statsHeader, statsRetval, hdrCalls, histVars, initVars, m_iterationCount, m_nccl,
                   m_pendingAsyncAggregation, tasks, m_recvHeaders>>

\* the other branches reduce every entry of m_gradientIndexToAggregate in place:
\* non-blocking all-reduce per tensor (CPU), blocking all-reduce on device pointers
\* (GDR and GPU), or one batched NCCL call; with GDR on CPU nothing is issued
ReduceInPlace(w, r) ==
    LET idx == m_gradientIndexToAggregate[r]
        Reduced(l, e) ==
            AllReduce([q \in Ranks |-> EntryMatrix(w[q], e).data],
                      GetNumElements(EntryMatrix(l, e)), r)
        hasNone == \E k \in 1 .. Len(idx) : idx[k] = NONE
    IN [w[r] EXCEPT
          !.g = [p \in 1 .. Len(@) |->
                    IF \E k \in 1 .. Len(idx) : idx[k] = p - 1
                    THEN [@[p] EXCEPT !.data = Reduced(w[r], p - 1)] ELSE @[p]],
          !.buf = IF hasNone THEN [@ EXCEPT !.data = Reduced(w[r], NONE)] ELSE @]

\* what m_mpi->AllReduce and m_nccl->AllReduce return is not looked at: after a
\* failure the pipeline goes on with the tensors as they are
UncheckedFailure ==
    \/ TransportBranch = "allreduce" /\ Reports("AllReduce")
    \/ TransportBranch = "nccl" /\ Reports("ncclAllReduce")

\* the calls of the other branches over n entries: one per entry, one for all with
\* NCCL, none with GDR on CPU
DirectEvents(branch, n) ==
    IF branch = "iallreduce" THEN [k \in 1 .. n |-> Event("Iallreduce", k - 1)]
    ELSE IF branch = "allreduce" THEN [k \in 1 .. n |-> Event("AllReduce", k - 1)]
    ELSE IF branch = "nccl" THEN <<Event("ncclAllReduce", 0)>>
    ELSE <<>>

ReduceDirect ==
    /\ impl.stage = "reduce"
    /\ TransportBranch # "staged"
    /\ IF TransportBranch = "iallreduce" /\ Reports("Iallreduce")
       THEN MpiFail
       ELSE /\ LET w == [r \in Ranks |-> Working(r)] IN
               IF TransportBranch = "skip" \/ UncheckedFailure
               THEN UNCHANGED <<gradients, m_bufferedGradients, m_aggregationBuffer,
                                m_intermediateCPUBuffers>>
               ELSE Store([r \in Ranks |-> ReduceInPlace(w, r)])
            /\ impl' = [impl EXCEPT !.stage = AfterReduce,
                  !.allReduceIndex = IF TransportBranch = "iallreduce"
                                     THEN Len(m_gradientIndexToAggregate[mainRank]) ELSE 0,
                  !.reductions =
                      IF TransportBranch = "skip" THEN <<>>
                      ELSE LET idx == m_gradientIndexToAggregate[mainRank] IN
                           [k \in 1 .. Len(idx) |->
                              Reduction(TransportBranch, idx[k],
                                  GetNumElements(EntryMatrix(Working(mainRank), idx[k])))],
                  !.events = @ \o DirectEvents(TransportBranch,
                                      Len(m_gradientIndexToAggregate[mainRank]))]
            /\ UNCHANGED <<envVars, headerCPU, m_bufferedGradHeader, resetState, pc, retval,
                           calls, statsHeader, statsRetval, hdrCalls, histVars, initVars,
                           m_iterationCount, m_nccl, m_pendingAsyncAggregation, tasks,
                           m_recvHeaders>>

\* one pass of the wait-any loop on the main rank: a header arrives in its slot, is
\* folded into the main rank's header and reset
WaitanyFold ==
    /\ impl.stage = "fold"
    /\ impl.numNodesHeadersReceivedFrom < NumProc - 1
    /\ IF Reports("Waitany")
       THEN MpiFail
       ELSE /\ \E idx \in Waitany(impl.recvHeaderRequests) :
                IF idx = MPI_UNDEFINED
                THEN \* break; the assert on the number of headers received ends the
                     \* process in a build with assertions and is empty without
                     /\ \E assertions \in BOOLEAN :
                           impl' = [impl EXCEPT
                               !.stage = IF assertions THEN "failed" ELSE "finish",
                               !.events = Append(@, Event("Waitany", idx))]
                     /\ UNCHANGED <<headerCPU, m_bufferedGradHeader, m_recvHeaders>>
                ELSE LET arrived == ImplHeader(RecvSource(idx, mainRank))
                         folded == HeaderAggregate(ImplHeader(mainRank), arrived)
                     IN /\ StoreHeaders([r \in Ranks |->
                                IF r = mainRank THEN folded ELSE ImplHeader(r)])
                        /\ m_recvHeaders' = [m_recvHeaders EXCEPT ![mainRank][idx + 1] =
                                                HeaderClear(arrived)]
                        /\ impl' = [impl EXCEPT
                              !.recvHeaderRequests = @ \ {idx},
                              !.numNodesHeadersReceivedFrom = @ + 1,
                              !.events = @ \o <<Event("Waitany", idx),
                                                Event("Aggregate", idx)>>,
                              !.stage = IF impl.numNodesHeadersReceivedFrom + 1 < NumProc - 1
                                        THEN "fold" ELSE "finish"]
            /\ UNCHANGED <<envVars, gradients, m_bufferedGradients, resetState, pc, retval,
                           calls, statsHeader, statsRetval, hdrCalls, histVars, initVars,
                           m_iterationCount, m_nccl, m_pendingAsyncAggregation, tasks,
                           m_aggregationBuffer, m_intermediateCPUBuffers>>

\* the completion waits after the broadcast: which wait runs, and on how many
\* requests or transfers
CompletionWait(allReduceIndex) ==
    IF ncclSupported THEN [wait |-> "ncclSync", n |-> 1]
    ELSE IF ~useGpuGdr /\ deviceId # CPUDEVICE
         THEN [wait |-> "WaitForCopyCPUToGPUAsync", n |-> allReduceIndex]
         ELSE IF ~useGpuGdr THEN [wait |-> "Wait", n |-> allReduceIndex]
              ELSE [wait |-> "none", n |-> 0]

\* the calls from the broadcast to the return: the broadcast, the completion waits,
\* the copy back to the packed gradients, the wait for the header send
FinishEvents ==
    LET c == CompletionWait(impl.allReduceIndex) IN
    <<Event("Bcast", 0)>>
    \o (IF c.wait = "none" THEN <<>>
        ELSE IF c.wait = "ncclSync" THEN <<Event("ncclSync", 0)>>
        ELSE [k \in 1 .. c.n |-> Event(c.wait, k - 1)])
    \o [k \in 1 .. Len(m_packedGradientsIndex[mainRank]) |->
            Event("Unpack", m_packedGradientsIndex[mainRank][k])]
    \o (IF NumProc > 1 THEN <<Event("WaitSend", 0)>> ELSE <<>>)
    \o <<Event("return", 0)>>

\* the smallest element of a non-empty set of task ids
MinTask(S) == CHOOSE t \in S : \A u \in S : t <= u

\* the broadcast of the header, the completion waits, the copy back to the packed
\* gradients, the wait for the header send, and the return
ImplFinish ==
    /\ impl.stage = "finish"
    /\ IF Reports("Wait")
       THEN MpiFail
       ELSE \* what m_mpi->Bcast and m_nccl->Sync return is not looked at: after a
            \* failed broadcast every rank goes on with the header it has
            /\ StoreHeaders(IF Reports("Bcast") THEN [r \in Ranks |-> ImplHeader(r)]
                            ELSE Bcast([r \in Ranks |-> ImplHeader(r)], mainRank))
            /\ Store([r \in Ranks |-> Unpack(Working(r), r)])
            /\ impl' = [NoImpl EXCEPT !.events = impl.events \o FinishEvents]
            /\ IF m_useAsyncAggregation
               THEN /\ tasks' = [r \in Ranks |-> tasks[r] \ {MinTask(tasks[r])}]
                    /\ UNCHANGED <<pc, retval, resetState>>
               ELSE /\ pc' = [r \in Ranks |-> "idle"]
                    /\ retval' = [r \in Ranks |-> Ret(SamplesProcessed(headerCPU'[r]))]
                    /\ resetState' = [r \in Ranks |-> FALSE]
                    /\ UNCHANGED tasks
            /\ UNCHANGED <<envVars, calls, statsHeader, statsRetval, hdrCalls, histVars,
                           initVars, m_iterationCount, m_nccl, m_pendingAsyncAggregation,
                           m_recvHeaders>>

(* ------------------------------- actions -------------------------------- *)
\* no call made yet
NoArgs == [none |-> TRUE]
NoOp == "none"

\* the aggregator of a rank from its construction to the end of its destruction: the
\* destructor body has run and the members declared after m_pendingAsyncAggregation
\* are destroyed when the future's destructor waits for the task
Alive == "alive"
HeadersFreed == "headers freed"
Destroyed == "destroyed"

\* the threads that use the queue; no thread holds the mutex; no operation is in
\* progress; an output argument that was never written
NumThreads == 3
Threads == 1 .. NumThreads
NoThread == 0
NoCall == [op |-> "none", arg |-> 0]
NoValue == 0

\* RunDynamiteTests is in progress; no error was computed yet; DynamiteTest starts with
\* seed = 1 and draws the shared matrix first
Running == "running"
NoError == [thrown |-> FALSE, num |-> 0, den |-> 1]
FirstSeed == 2

InitEnv(sizes, async, thresholds, failures, faults) ==
    /\ failingCall \in failures
    /\ inputFaults = faults
    /\ numProc \in sizes
    /\ mainRank \in 0 .. (numProc - 1)
    /\ ncclSupported \in BOOLEAN
    /\ useGpuGdr \in BOOLEAN
    /\ deviceId \in {CPUDEVICE, GPU0}
    /\ m_useAsyncAggregation \in async
    /\ m_packThresholdSizeInBytes \in thresholds
    \* an allocation can only fail where one is made
    /\ allocFails \in IF ~m_useAsyncAggregation /\ m_packThresholdSizeInBytes >= ElemSize
                       THEN BOOLEAN ELSE {FALSE}

\* the state after construction
InitRanks ==
    /\ gradients = [r \in Ranks |-> [p \in 1 .. NumGrads |-> NewMatrix(1, p)]]
    /\ headerCPU = [r \in Ranks |-> HeaderCreate(NumEvalNode)]
    /\ resetState = [r \in Ranks |-> FALSE]
    /\ pc = [r \in Ranks |-> "idle"]
    /\ retval = [r \in Ranks |-> NoRet]
    /\ calls = [r \in Ranks |-> 0]
    /\ hdrCalls = [r \in Ranks |-> 0]
    /\ statsHeader = [r \in Ranks |-> HeaderCreate(NumEvalNode)]
    /\ statsRetval = [r \in Ranks |-> NoRet]
    /\ resetFlags = {}
    /\ submitted = [r \in Ranks |-> <<>>]
    /\ handles = [r \in Ranks |-> KnownHandles]
    /\ lifetime = [r \in Ranks |-> Alive]
    /\ checkArgs = [r \in Ranks |-> NoArgs]
    /\ checkRetval = [r \in Ranks |-> NoRet]
    /\ distInit = [r \in Ranks |-> FALSE]
    /\ distMatrix = [r \in Ranks |-> NewMatrix(1, 1)]
    /\ distOp = [r \in Ranks |-> NoOp]
    /\ distOutcome = [r \in Ranks |-> NoRet]
    /\ mut = NoThread
    /\ data_queue = <<>>
    /\ data_cond = {}
    /\ qpc = [t \in Threads |-> "ready"]
    /\ qop = [t \in Threads |-> NoCall]
    /\ value = [t \in Threads |-> NoValue]
    /\ qret = [t \in Threads |-> NoRet]
    /\ pushed = <<>>
    /\ popped = <<>>
    /\ asyncMpiFlag = FALSE
    /\ tpc = [t \in Threads |-> "start"]
    /\ offered = <<>>
    /\ reducedNodes = <<>>
    /\ testConfig = 1
    /\ testIndex = 1
    /\ seed = FirstSeed
    /\ numFailed = 0
    /\ runNumFailed = 0
    /\ testResult = Running
    /\ avSqrErr = NoError
    /\ gradientLog = 0
    /\ m_initialized = [r \in Ranks |-> FALSE]
    /\ m_iterationCount = [r \in Ranks |-> 0]
    /\ m_nccl = [r \in Ranks |-> FALSE]
    /\ m_bufferedGradients = [r \in Ranks |-> <<>>]
    /\ m_bufferedGradHeader = [r \in Ranks |-> NULL]
    /\ m_pendingAsyncAggregation = [r \in Ranks |-> NoTask]
    /\ tasks = [r \in Ranks |-> {}]
    /\ m_packedGradientsIndex = [r \in Ranks |-> <<>>]
    /\ m_gradientIndexToAggregate = [r \in Ranks |-> <<>>]
    /\ m_aggregationBuffer = [r \in Ranks |-> NULL]
    /\ m_intermediateCPUBuffers = [r \in Ranks |-> <<>>]
    /\ m_recvHeaders = [r \in Ranks |-> <<>>]
    /\ impl = NoImpl

\* the shapes of the tensors of a list
Shapes(g) == [p \in 1 .. Len(g) |-> <<g[p].numRows, g[p].numCols>>]

\* all ranks pass the same resetState and tensors of the same shapes in their k-th
\* call: the first rank to make call k chooses them, the others follow
AlignedReset(r, k, reset, g) ==
    LET known == {f \in resetFlags : f[1] = k}
        waiting == \E q \in Ranks : q # r /\ calls[q] < k /\ pc[q] \notin {"fatal", Killed}
    IN /\ \A f \in known : reset = f[2] /\ Shapes(g) = f[3]
       /\ resetFlags' = IF waiting THEN resetFlags \cup {<<k, reset, Shapes(g)>>}
                        ELSE resetFlags \ known

\* the early return left out
AlwaysAggregate == FALSE

\* if (m_mpi->NumNodesInUse() == 1): no need to aggregate anything
NoNeedToAggregate == NumProc = 1

\* AggregateGradients(gradients, headerCPU, resetState) on rank r, up to the mode
\* switch.  The optimizer has written the gradients and the header of minibatch k.
AggregateGradients(r) ==
    /\ pc[r] = "idle"
    /\ lifetime[r] = Alive
    /\ calls[r] < MaxIter
    /\ LET k == calls[r] + 1
       IN \E g \in GradientLists(r, k), hs \in HandleLists(r, k), h \in Headers(r, k),
             reset \in BOOLEAN :
        /\ AlignedReset(r, k, reset, g)
        /\ handles' = [handles EXCEPT ![r] = hs]
        /\ calls' = [calls EXCEPT ![r] = k]
        /\ submitted' = [submitted EXCEPT ![r] = Append(@, h)]
        /\ gradients' = [gradients EXCEPT ![r] = g]
        /\ headerCPU' = [headerCPU EXCEPT ![r] = h]
        /\ IF NoNeedToAggregate
           THEN /\ retval' = [retval EXCEPT ![r] = Ret(SamplesProcessed(h))]
                /\ UNCHANGED <<pc, resetState, initVars, m_iterationCount, m_nccl,
                               asyncVars, bufVars>>
           ELSE \E outcome \in Outcomes :
                /\ m_nccl' = [m_nccl EXCEPT ![r] = TRUE]
                /\ ResetState(r, g, hs, reset, outcome)
                /\ resetState' = [resetState EXCEPT ![r] = reset]
                /\ retval' = [retval EXCEPT ![r] = NoRet]
                /\ UNCHANGED <<m_pendingAsyncAggregation, tasks>>
                /\ IF outcome # Returned
                   THEN /\ pc' = [pc EXCEPT ![r] = IF outcome = Killed THEN Killed
                                                   ELSE "fatal"]
                        /\ UNCHANGED m_iterationCount
                   ELSE /\ m_iterationCount' = [m_iterationCount EXCEPT ![r] = @ + 1]
                        /\ pc' = [pc EXCEPT ![r] =
                                    IF m_useAsyncAggregation THEN "join" ELSE "impl"]
    /\ UNCHANGED <<envVars, statsHeader, statsRetval, hdrCalls, lifetime, auxVars, impl>>

\* a call that does not wait for the pending task
NoJoin(r) == TRUE

\* m_pendingAsyncAggregation.get() returns once the task it refers to has finished;
\* an invalid future is not waited for
JoinReady(r) ==
    \/ m_pendingAsyncAggregation[r] = NoTask
    \/ m_pendingAsyncAggregation[r] \notin tasks[r]

\* the shape check of the swap loop
NoBufferedGradient(shadow, g) ==
    \/ shadow = NULL
    \/ shadow.numCols # g.numCols
    \/ shadow.numRows # g.numRows

\* the first position (1-based) at which the swap loop raises LogicError, 0 when it
\* raises none
FirstMismatch(shadows, hs, g) ==
    LET bad(p) == NoBufferedGradient(BufferedGradient(shadows, hs[p]), g[p]) IN
    IF \A p \in 1 .. Len(g) : ~bad(p) THEN 0
    ELSE CHOOSE p \in 1 .. Len(g) : bad(p) /\ \A q \in 1 .. (p - 1) : ~bad(q)

\* std::swap(*(gradients[i]), *bufferedGradientMatrix) at the positions 1 .. n
SwappedGradients(shadows, hs, g, n) ==
    [p \in 1 .. Len(g) |-> IF p <= n THEN shadows[hs[p]] ELSE g[p]]
SwappedShadows(shadows, hs, g, n) ==
    [id \in 1 .. Len(shadows) |->
        IF \E p \in 1 .. n : hs[p] = id
        THEN g[CHOOSE p \in 1 .. n : hs[p] = id] ELSE shadows[id]]

\* dispatch decided by the sample count alone, and dispatch on every call
DispatchOnSamplesOnly(reset, h) == h.numSamples # 0
AlwaysDispatch(reset, h) == TRUE

\* if (resetState || (headerCPU->numSamples != 0)), on the swapped-in header
ShouldDispatch(reset, h) == reset \/ h.numSamples # 0

\* async mode, from the return of get() to the return of AggregateGradients: swap
\* the gradients and the header with the shadows, dispatch the task
SwapAndDispatch(r) ==
    /\ pc[r] = "join"
    /\ JoinReady(r)
    /\ LET k == calls[r]
           shadows == m_bufferedGradients[r]
           hs == handles[r]
           g == gradients[r]
           bad == FirstMismatch(shadows, hs, g)
       IN IF bad # 0
          THEN /\ pc' = [pc EXCEPT ![r] = "fatal"]
               /\ m_pendingAsyncAggregation' =
                      [m_pendingAsyncAggregation EXCEPT ![r] = NoTask]
               /\ gradients' = [gradients EXCEPT ![r] =
                      SwappedGradients(shadows, hs, g, bad - 1)]
               /\ m_bufferedGradients' = [m_bufferedGradients EXCEPT ![r] =
                      SwappedShadows(shadows, hs, g, bad - 1)]
               /\ UNCHANGED <<headerCPU, retval, m_bufferedGradHeader, tasks>>
          ELSE /\ gradients' = [gradients EXCEPT ![r] =
                      SwappedGradients(shadows, hs, g, Len(g))]
               /\ m_bufferedGradients' = [m_bufferedGradients EXCEPT ![r] =
                      SwappedShadows(shadows, hs, g, Len(g))]
               /\ headerCPU' = [headerCPU EXCEPT ![r] = m_bufferedGradHeader[r]]
               /\ m_bufferedGradHeader' = [m_bufferedGradHeader EXCEPT ![r] = headerCPU[r]]
               /\ pc' = [pc EXCEPT ![r] = "idle"]
               /\ IF ShouldDispatch(resetState[r], m_bufferedGradHeader[r])
                  THEN /\ m_pendingAsyncAggregation' =
                              [m_pendingAsyncAggregation EXCEPT ![r] = k]
                       /\ tasks' = [tasks EXCEPT ![r] = @ \cup {k}]
                       /\ retval' = [retval EXCEPT ![r] = Ret(TRUE)]
                  ELSE /\ m_pendingAsyncAggregation' =
                              [m_pendingAsyncAggregation EXCEPT ![r] = NoTask]
                       /\ retval' = [retval EXCEPT ![r] = Ret(FALSE)]
                       /\ UNCHANGED tasks
    /\ UNCHANGED <<envVars, resetState, calls, statsHeader, statsRetval, hdrCalls,
                   histVars, initVars, m_iterationCount, m_nccl, bufVars, impl>>

\* the header a rank passes to AsyncAggregateGradHeader: its own statistics, or
\* statistics with a sample count that is the same on all ranks
CommonHeader(r, k) == [FreshHeader(r, k) EXCEPT !.numSamples = 10 * k + 9]
HeaderArgs(r, k) == {FreshHeader(r, k), CommonHeader(r, k)}

\* AsyncAggregateGradHeader(headerCPU) on rank r, up to the rendezvous
AsyncAggregateGradHeader(r) ==
    /\ pc[r] = "idle"
    /\ lifetime[r] = Alive
    /\ hdrCalls[r] < MaxHdrCalls
    /\ \E h \in HeaderArgs(r, hdrCalls[r] + 1) :
        /\ statsHeader' = [statsHeader EXCEPT ![r] = h]
        /\ hdrCalls' = [hdrCalls EXCEPT ![r] = @ + 1]
        /\ IF NoNeedToAggregate
           THEN /\ statsRetval' = [statsRetval EXCEPT ![r] = Ret(SamplesProcessed(h))]
                /\ UNCHANGED <<pc, m_nccl, m_recvHeaders>>
           ELSE /\ m_nccl' = [m_nccl EXCEPT ![r] = TRUE]
                /\ m_recvHeaders' = [m_recvHeaders EXCEPT ![r] =
                        IF IsMainNode(r)
                        THEN @ \o [s \in 1 .. NumProc - 1 |-> HeaderCreate(NumEvalNode)]
                        ELSE @]
                /\ pc' = [pc EXCEPT ![r] = "hdr"]
                /\ statsRetval' = [statsRetval EXCEPT ![r] = NoRet]
    /\ UNCHANGED <<envVars, gradients, headerCPU, retval, resetState, calls, histVars, initVars,
                   m_iterationCount, asyncVars, m_aggregationBuffer,
                   m_intermediateCPUBuffers, impl>>

\* the tag of the header send and receives of rank r in AsyncAggregateGradHeaderImpl:
\* numHeaderSample, the numSamples of the header r passed
HeaderTag(r) == statsHeader[r].numSamples
\* the tag of the header send and receives of rank r in AggregateGradientsImpl:
\* numGradMatrices, the size of the gradient list
PipelineTag(r) == Len(ImplGradients(r))
\* a header send matches the receive posted for it when the tags are equal; the tag
\* is the sender's, respectively the main rank's, numSamples
TagsMatch == \A r \in Ranks : statsHeader[r].numSamples = statsHeader[mainRank].numSamples

RECURSIVE FoldHeaders(_, _, _)
\* the wait-any loop over slots j .. NumProc-2, folding the header found in each
FoldHeaders(h, recv, j) ==
    IF j > NumProc - 2 THEN h
    ELSE FoldHeaders(HeaderAggregate(h, recv[j + 1]), recv, j + 1)

\* AsyncAggregateGradHeaderImpl on all ranks: the receives into slots 0 .. W-2 of the
\* main rank, the fold, the broadcast, and the return
AsyncAggregateGradHeaderImpl ==
    /\ \A r \in Ranks : pc[r] = "hdr"
    /\ TagsMatch
    /\ LET arrived == [j \in 0 .. (NumProc - 2) |-> statsHeader[RecvSource(j, mainRank)]]
           recv == [s \in 1 .. Len(m_recvHeaders[mainRank]) |->
                        IF s <= NumProc - 1 THEN arrived[s - 1]
                        ELSE m_recvHeaders[mainRank][s]]
           folded == FoldHeaders(statsHeader[mainRank], recv, 0)
       IN /\ statsHeader' = Bcast([r \in Ranks |-> IF r = mainRank THEN folded
                                                 ELSE statsHeader[r]], mainRank)
          /\ m_recvHeaders' = [m_recvHeaders EXCEPT ![mainRank] =
                  [s \in 1 .. Len(recv) |->
                      IF s <= NumProc - 1 THEN HeaderClear(recv[s]) ELSE recv[s]]]
          /\ statsRetval' = [r \in Ranks |-> Ret(SamplesProcessed(statsHeader'[r]))]
    /\ pc' = [r \in Ranks |-> "idle"]
    /\ UNCHANGED <<envVars, gradients, headerCPU, retval, resetState, calls, hdrCalls,
                   histVars, initVars,
                   m_iterationCount, m_nccl, asyncVars, m_aggregationBuffer,
                   m_intermediateCPUBuffers, impl>>

Pipeline == ImplBegin \/ ReduceStaged \/ ReduceDirect \/ WaitanyFold \/ ImplFinish

(* --------------------------- DistributedCheck --------------------------- *)
\* the minibatch sizes and the process numbers a caller passes, and what a size_t
\* that was never written may hold
MinibatchSizes == {32, 64}
ProcessNums == 1 .. (MaxProc + 1)
Uninitialized == {0} \cup MinibatchSizes

\* DistributedCheck(minibatchSize, processNum) on rank r, up to the all-gather
DistributedCheck(r) ==
    /\ pc[r] = "idle"
    /\ lifetime[r] = Alive
    /\ checkArgs[r] = NoArgs
    /\ \E size \in MinibatchSizes, num \in ProcessNums :
        checkArgs' = [checkArgs EXCEPT ![r] = [minibatchSize |-> size, processNum |-> num]]
    /\ pc' = [pc EXCEPT ![r] = "check"]
    /\ UNCHANGED <<envVars, gradients, headerCPU, resetState, retval, calls, statsHeader,
                   statsRetval, hdrCalls, resetFlags, submitted, handles, lifetime,
                   checkRetval, distVars, queueVars, threadVars, testVars, initVars, m_iterationCount, m_nccl, asyncVars, bufVars,
                   impl>>

\* m_mpi->AllGather(&minibatchSize, 1, gatherBuffer, 1): element i of the processNum
\* elements of gatherBuffer is the value of rank i; an element the gather does not
\* reach keeps what new size_t[processNum] left there
GatherBuffer(processNum, rest) ==
    [i \in 0 .. (processNum - 1) |->
        IF i < NumProc THEN checkArgs[i].minibatchSize ELSE rest[i]]

\* the loop from i = 1: false at the first element that differs from element 0
RECURSIVE CheckFrom(_, _, _)
CheckFrom(gatherBuffer, i, processNum) ==
    IF i >= processNum THEN TRUE
    ELSE IF gatherBuffer[i] # gatherBuffer[0] THEN FALSE
    ELSE CheckFrom(gatherBuffer, i + 1, processNum)

\* the all-gather of DistributedCheck on all ranks, the loop and the return.  A
\* rank whose gatherBuffer is shorter than the number of ranks has the gather write
\* behind its end: it goes on, or the process is killed
AllGatherAndCheck ==
    /\ \A r \in Ranks : pc[r] = "check"
    /\ \E rest \in [Ranks -> [NumProc .. MaxProc -> Uninitialized]],
          overrun \in [Ranks -> {Returned, Killed}] :
        /\ \A r \in Ranks : checkArgs[r].processNum >= NumProc => overrun[r] = Returned
        /\ pc' = [r \in Ranks |-> IF overrun[r] = Killed THEN Killed ELSE "idle"]
        /\ checkRetval' = [r \in Ranks |->
              IF overrun[r] = Killed THEN NoRet
              ELSE Ret(CheckFrom(GatherBuffer(checkArgs[r].processNum, rest[r]), 1,
                                 checkArgs[r].processNum))]
    /\ UNCHANGED <<envVars, gradients, headerCPU, resetState, retval, calls, statsHeader,
                   statsRetval, hdrCalls, resetFlags, submitted, handles, lifetime,
                   checkArgs, distVars, queueVars, threadVars, testVars, initVars, m_iterationCount, m_nccl, asyncVars, bufVars,
                   impl>>

(* ------------------------- DistributedAllReduce ------------------------- *)
\* DistributedInit(deviceId, bufferSize) on rank r: the communicator, and the pinned
\* buffers where tensors are staged through the host
DistributedInit(r) ==
    /\ pc[r] = "idle"
    /\ lifetime[r] = Alive
    /\ ~distInit[r]
    /\ IF NoNeedToAggregate
       THEN UNCHANGED <<m_nccl, distInit>>
       ELSE /\ m_nccl' = [m_nccl EXCEPT ![r] = TRUE]
            /\ distInit' = [distInit EXCEPT ![r] = TRUE]
    /\ UNCHANGED <<envVars, callerVars, resetFlags, submitted, handles, lifetime, checkVars,
                   distMatrix, distOp, distOutcome, queueVars, threadVars, testVars, initVars, m_iterationCount,
                   asyncVars, bufVars, impl>>

\* the operations a caller passes, and the tensor of DistLen elements rank r passes
MPI_SUM == "MPI_SUM"
MPI_MAX == "MPI_MAX"
MPI_Ops == {MPI_SUM, MPI_MAX}
DistLen == 2
DistTensor(r) ==
    [NewMatrix(1, DistLen) EXCEPT !.data = [j \in 1 .. DistLen |-> 10 * (r + 1) + j]]

\* DistributedAllReduce(distributedMatrix, op) on rank r, up to the collective; all
\* ranks pass the same operation
DistributedAllReduce(r) ==
    /\ pc[r] = "idle"
    /\ lifetime[r] = Alive
    /\ m_nccl[r]
    /\ distOp[r] = NoOp
    /\ \E op \in MPI_Ops :
        /\ \A q \in Ranks : distOp[q] \in {NoOp, op}
        /\ distOp' = [distOp EXCEPT ![r] = op]
    /\ distMatrix' = [distMatrix EXCEPT ![r] = DistTensor(r)]
    /\ pc' = [pc EXCEPT ![r] = "allreduce"]
    /\ UNCHANGED <<envVars, gradients, headerCPU, resetState, retval, calls, statsHeader,
                   statsRetval, hdrCalls, resetFlags, submitted, handles, lifetime,
                   checkVars, distInit, distOutcome, queueVars, threadVars, testVars, initVars, m_iterationCount, m_nccl,
                   asyncVars, bufVars, impl>>

\* the operation of m_mpi->AllReduce(buffer, count), called without one: the sum, as
\* in the gradient pipeline
DefaultOp == MPI_SUM

RECURSIVE MaxTo(_, _)
MaxTo(f, n) == IF n = 0 THEN f[0]
               ELSE LET m == MaxTo(f, n - 1) IN IF f[n] > m THEN f[n] ELSE m
\* element j of the all-reduce with operation op; data[q] is the buffer of rank q
ReduceWith(op, data, j) ==
    IF op = MPI_SUM THEN RankSum([q \in Ranks |-> data[q][j]])
    ELSE MaxTo([q \in Ranks |-> data[q][j]], NumProc - 1)

\* the operation each branch of DistributedAllReduce hands to the transport
BranchOp(branch, op) == IF branch = "allreduce" THEN DefaultOp ELSE op

\* how the if-chain after the reduction ends
DistCompletion ==
    IF ncclSupported THEN Returned
    ELSE IF ~useGpuGdr /\ deviceId # CPUDEVICE THEN Returned
    ELSE IF ~useGpuGdr THEN Returned
    ELSE "LogicError"

\* the collective of DistributedAllReduce on all ranks: the reduction of the branch,
\* the completion chain, the return
DistributedAllReduceImpl ==
    /\ \A r \in Ranks : pc[r] = "allreduce"
    /\ LET branch == TransportBranch
           data == [q \in Ranks |-> distMatrix[q].data]
           op == BranchOp(branch, distOp[mainRank])
       IN /\ distMatrix' = [r \in Ranks |->
                IF branch = "skip" THEN distMatrix[r]
                ELSE [distMatrix[r] EXCEPT !.data =
                        [j \in 1 .. Len(@) |-> ReduceWith(op, data, j)]]]
          /\ distOutcome' = [r \in Ranks |->
                IF branch = "skip" THEN "LogicError" ELSE DistCompletion]
          /\ pc' = [r \in Ranks |-> IF distOutcome'[r] = Returned THEN "idle" ELSE "fatal"]
    /\ UNCHANGED <<envVars, gradients, headerCPU, resetState, retval, calls, statsHeader,
                   statsRetval, hdrCalls, resetFlags, submitted, handles, lifetime,
                   checkVars, distInit, distOp, queueVars, threadVars, testVars, initVars, m_iterationCount, m_nccl,
                   asyncVars, bufVars, impl>>

\* ~SimpleDistGradAggregator() on rank r, called between two calls of the caller, up
\* to the destructor of m_pendingAsyncAggregation: the body destroys the receive
\* headers and the shadow header, then the members declared after the future go.
\* Nothing in the body waits for the task.  The freed objects keep their bytes.
Destructor(r) ==
    /\ pc[r] = "idle"
    /\ lifetime[r] = Alive
    /\ lifetime' = [lifetime EXCEPT ![r] = HeadersFreed]
    /\ m_nccl' = [m_nccl EXCEPT ![r] = FALSE]
    /\ UNCHANGED <<envVars, callerVars, resetFlags, submitted, handles, auxVars, initVars,
                   m_iterationCount, asyncVars, bufVars, impl>>

\* the destructor of the future returned by std::async: it returns once the task it
\* refers to has finished
FutureDestructor(r) ==
    /\ lifetime[r] = HeadersFreed
    /\ JoinReady(r)
    /\ lifetime' = [lifetime EXCEPT ![r] = Destroyed]
    /\ m_pendingAsyncAggregation' = [m_pendingAsyncAggregation EXCEPT ![r] = NoTask]
    /\ UNCHANGED <<envVars, callerVars, resetFlags, submitted, handles, auxVars, initVars,
                   m_iterationCount, m_nccl, m_bufferedGradients, m_bufferedGradHeader,
                   tasks, bufVars, impl>>

\* a task in AggregateGradientsImpl uses a header that is freed: it goes on with the
\* bytes that are still there (the steps of the pipeline), or the process is killed
UseAfterFree(r) ==
    /\ lifetime[r] = HeadersFreed
    /\ InPipeline(r)
    /\ impl.stage \in {"idle", "fold", "finish"}
    /\ \A q \in Ranks : InPipeline(q)
    /\ pc' = [pc EXCEPT ![r] = Killed]
    /\ impl' = [impl EXCEPT !.stage = "failed"]
    /\ UNCHANGED <<envVars, gradients, headerCPU, resetState, retval, calls, statsHeader,
                   statsRetval, hdrCalls, histVars, initVars, m_iterationCount, m_nccl,
                   asyncVars, bufVars>>

(* --------------------------- threadsafe_queue --------------------------- *)
\* everything but the queue and the threads that use it
aggregatorVars == <<envVars, callerVars, resetFlags, submitted, handles, lifetime,
                    checkVars, distVars, initVars, m_iterationCount, m_nccl, asyncVars,
                    bufVars, impl>>
\* everything but the queue and its threads
otherVars == <<aggregatorVars, testVars>>

\* thread t calls an operation of the queue: it goes for the mutex
Call(t, op, arg) ==
    /\ qpc[t] \in {"ready", "done"}
    /\ qpc' = [qpc EXCEPT ![t] = "lock"]
    /\ qop' = [qop EXCEPT ![t] = [op |-> op, arg |-> arg]]

\* std::lock_guard / std::unique_lock constructor, and the re-acquisition of the
\* mutex by a thread that left data_cond.wait
Lock(t) ==
    /\ qpc[t] = "lock"
    /\ mut = NoThread
    /\ mut' = t
    /\ qpc' = [qpc EXCEPT ![t] = "locked"]
    /\ UNCHANGED <<data_queue, data_cond, qop, value, qret, pushed, popped, threadVars,
                   otherVars>>

\* a push that notifies no thread
NotifyNone(waiting) == {{}}
\* data_cond.notify_one(): one of the threads blocked in wait is woken, if any
NotifyOne(waiting) == IF waiting = {} THEN {{}} ELSE {{w} : w \in waiting}

\* push(new_value) under the mutex: data_queue.push, notify_one, unlock
Push(t) ==
    /\ qpc[t] = "locked"
    /\ qop[t].op = "push"
    /\ data_queue' = Append(data_queue, qop[t].arg)
    /\ pushed' = Append(pushed, qop[t].arg)
    /\ \E woken \in NotifyOne(data_cond) :
          /\ data_cond' = data_cond \ woken
          /\ qpc' = [u \in Threads |-> IF u = t THEN "done"
                                       ELSE IF u \in woken THEN "lock" ELSE qpc[u]]
    /\ mut' = NoThread
    /\ UNCHANGED <<qop, value, qret, popped, threadVars, otherVars>>

\* wait_and_pop(value) under the mutex: data_cond.wait(lk, pred) releases the mutex
\* and blocks while the queue is empty; otherwise front, pop, unlock
WaitAndPop(t) ==
    /\ qpc[t] = "locked"
    /\ qop[t].op = "wait_and_pop"
    /\ IF data_queue = <<>>
       THEN /\ data_cond' = data_cond \cup {t}
            /\ qpc' = [qpc EXCEPT ![t] = "wait"]
            /\ UNCHANGED <<data_queue, value, popped>>
       ELSE /\ value' = [value EXCEPT ![t] = Head(data_queue)]
            /\ data_queue' = Tail(data_queue)
            /\ popped' = Append(popped, Head(data_queue))
            /\ qpc' = [qpc EXCEPT ![t] = "done"]
            /\ UNCHANGED data_cond
    /\ mut' = NoThread
    /\ UNCHANGED <<qop, qret, pushed, threadVars, otherVars>>

\* a thread blocked in data_cond.wait wakes without a notification, which
\* std::condition_variable allows; it goes for the mutex and tests the predicate again
SpuriousWake(t) ==
    /\ qpc[t] = "wait"
    /\ t \in data_cond
    /\ data_cond' = data_cond \ {t}
    /\ qpc' = [qpc EXCEPT ![t] = "lock"]
    /\ UNCHANGED <<mut, data_queue, qop, value, qret, pushed, popped, threadVars,
                   otherVars>>

\* try_pop(value) under the mutex: false on an empty queue, else front, pop, true
TryPop(t) ==
    /\ qpc[t] = "locked"
    /\ qop[t].op = "try_pop"
    /\ IF data_queue = <<>>
       THEN /\ qret' = [qret EXCEPT ![t] = Ret(FALSE)]
            /\ UNCHANGED <<data_queue, value, popped>>
       ELSE /\ value' = [value EXCEPT ![t] = Head(data_queue)]
            /\ data_queue' = Tail(data_queue)
            /\ popped' = Append(popped, Head(data_queue))
            /\ qret' = [qret EXCEPT ![t] = Ret(TRUE)]
    /\ qpc' = [qpc EXCEPT ![t] = "done"]
    /\ mut' = NoThread
    /\ UNCHANGED <<data_cond, qop, pushed, threadVars, otherVars>>

\* empty() under the mutex
Empty(t) ==
    /\ qpc[t] = "locked"
    /\ qop[t].op = "empty"
    /\ qret' = [qret EXCEPT ![t] = Ret(data_queue = <<>>)]
    /\ qpc' = [qpc EXCEPT ![t] = "done"]
    /\ mut' = NoThread
    /\ UNCHANGED <<data_queue, data_cond, qop, value, pushed, popped, threadVars,
                   otherVars>>

\* the steps of the queue's operations
QueueStep(t) == Lock(t) \/ Push(t) \/ WaitAndPop(t) \/ TryPop(t) \/ Empty(t)

\* the number of calls the threads make in all, and the operations
MaxCalls == 4
QueueOps == {"push", "try_pop", "wait_and_pop", "empty"}
\* the calls made so far
QueueCalls == Len(offered)
\* any thread calls any operation; a pushed value is the number of the call
AnyCall(t) ==
    /\ QueueCalls < MaxCalls
    /\ \E op \in QueueOps :
          /\ Call(t, op, IF op = "push" THEN QueueCalls + 1 ELSE 0)
          /\ offered' = Append(offered, op)
    /\ UNCHANGED <<mut, data_queue, data_cond, value, qret, pushed, popped, asyncMpiFlag,
                   tpc, reducedNodes, otherVars>>

(* ------------------- ASYNCMPI: the node queue and its thread ------------------- *)
\* the thread that runs backprop and offers its nodes, and the thread that runs
\* BackpropAsyncMpiThread
Producer == 1
Consumer == 2
\* the number of nodes backprop offers
NumNodes == 3
\* a node: NeedsGradient(), and IsParameterUpdateRequired() && !m_distribute
Node(needs, update) == [needsGradient |-> needs, updateRequired |-> update]
\* no call of the queue is in progress in thread t
Idle(t) == qpc[t] \in {"ready", "done"}

\* AsyncAggreagateGradients(node): nothing in a world of one rank or for a node that
\* needs no gradient, else m_asyncNodeQueue.push(node); the node is known by its number
AsyncAggreagateGradients(t) ==
    /\ t = Producer
    /\ tpc[t] = "start"
    /\ Idle(t)
    /\ Len(offered) < NumNodes
    /\ \E needs \in BOOLEAN, update \in BOOLEAN :
          /\ offered' = Append(offered, Node(needs, update))
          /\ IF NumProc = 1 \/ ~needs
             THEN UNCHANGED <<qpc, qop>>
             ELSE Call(t, "push", Len(offered) + 1)
    /\ UNCHANGED <<mut, data_queue, data_cond, value, qret, pushed, popped, asyncMpiFlag,
                   tpc, reducedNodes, otherVars>>

\* the producer sets the stop flag once its calls of AsyncAggreagateGradients returned
SetFlag(t) ==
    /\ t = Producer
    /\ tpc[t] = "start"
    /\ Idle(t)
    /\ asyncMpiFlag' = TRUE
    /\ tpc' = [tpc EXCEPT ![t] = "exit"]
    /\ UNCHANGED <<queueVars, offered, reducedNodes, otherVars>>

\* an exit test that looks at the flag alone
BreakOnFlag(flag, isEmpty) == flag
\* if (asyncMpiFlag && m_asyncNodeQueue.empty()) break;
Break(flag, isEmpty) == flag /\ isEmpty

\* BackpropAsyncMpiThread, one step of it: the statements between two calls of the
\* queue. tpc is where the thread is:
\*   "start"      at the entry
\*   "outer"      at the top of while (true), before asyncMpiFlag is read
\*   "outerEmpty" in the empty() of the exit test, called only if the flag was set
\*   "inner"      at the test of while (!m_asyncNodeQueue.empty())
\*   "innerEmpty" in the empty() of that test
\*   "popped"     in try_pop(node)
\*   "crashed"    after the dereference of a null gradNode
\*   "exit"       returned
BackpropAsyncMpiThread(t) ==
    /\ t = Consumer
    /\ Idle(t)
    /\ \/ /\ tpc[t] = "start"
          /\ tpc' = [tpc EXCEPT ![t] = IF NumProc = 1 THEN "exit" ELSE "outer"]
          /\ UNCHANGED <<qpc, qop, value, reducedNodes>>
       \/ /\ tpc[t] = "outer"
          /\ IF asyncMpiFlag
             THEN /\ Call(t, "empty", 0)
                  /\ tpc' = [tpc EXCEPT ![t] = "outerEmpty"]
             ELSE /\ tpc' = [tpc EXCEPT ![t] = "inner"]
                  /\ UNCHANGED <<qpc, qop>>
          /\ UNCHANGED <<value, reducedNodes>>
       \/ /\ tpc[t] = "outerEmpty"
          /\ tpc' = [tpc EXCEPT ![t] = IF Break(TRUE, qret[t] = Ret(TRUE))
                                       THEN "exit" ELSE "inner"]
          /\ UNCHANGED <<qpc, qop, value, reducedNodes>>
       \/ /\ tpc[t] = "inner"
          /\ Call(t, "empty", 0)
          /\ tpc' = [tpc EXCEPT ![t] = "innerEmpty"]
          /\ UNCHANGED <<value, reducedNodes>>
       \/ /\ tpc[t] = "innerEmpty"
          /\ IF qret[t] = Ret(TRUE)
             THEN /\ tpc' = [tpc EXCEPT ![t] = "outer"]
                  /\ UNCHANGED <<qpc, qop, value>>
             ELSE \* ComputationNodeBasePtr node; m_asyncNodeQueue.try_pop(node);
                  /\ value' = [value EXCEPT ![t] = NoValue]
                  /\ Call(t, "try_pop", 0)
                  /\ tpc' = [tpc EXCEPT ![t] = "popped"]
          /\ UNCHANGED reducedNodes
       \/ /\ tpc[t] = "popped"
          /\ IF value[t] = NoValue
             THEN \* try_pop found the queue empty and its result is ignored: node and
                  \* gradNode are null and gradNode->IsParameterUpdateRequired() is
                  \* undefined; the build crashes there or goes on
                  /\ tpc' \in {[tpc EXCEPT ![t] = "crashed"], [tpc EXCEPT ![t] = "inner"]}
                  /\ UNCHANGED reducedNodes
             ELSE \* AsyncAggreagateGradientsImpl on the gradient of the node
                  /\ reducedNodes' = IF offered[value[t]].updateRequired
                                     THEN Append(reducedNodes, value[t])
                                     ELSE reducedNodes
                  /\ tpc' = [tpc EXCEPT ![t] = "inner"]
          /\ UNCHANGED <<qpc, qop, value>>
    /\ UNCHANGED <<mut, data_queue, data_cond, qret, pushed, popped, asyncMpiFlag,
                   offered, otherVars>>

\* worlds of one and of two ranks; the thread is scheduled and the mutex is handed
\* over, the producer may stop at any point
InitThread ==
    /\ InitEnv({1, 2}, {FALSE}, {0}, {NoFailure}, {}) /\ InitRanks
    /\ ~ncclSupported /\ ~useGpuGdr /\ deviceId = CPUDEVICE /\ ~allocFails
NextThread == \/ \E t \in Threads : AsyncAggreagateGradients(t)
              \/ \E t \in Threads : SetFlag(t)
              \/ \E t \in Threads : BackpropAsyncMpiThread(t)
              \/ \E t \in Threads : Lock(t)
              \/ \E t \in Threads : Push(t)
              \/ \E t \in Threads : TryPop(t)
              \/ \E t \in Threads : Empty(t)
SpecThread == /\ InitThread /\ [][NextThread]_vars
              /\ WF_vars(BackpropAsyncMpiThread(Consumer))
              /\ WF_vars(\E t \in Threads : QueueStep(t))

(* ------------------------------ Dynamite tests ------------------------------ *)
\* Tensor values are in units of 1e-3 and squared errors in units of 1e-6, relative
\* errors in units of 1e-6: both 1e-5 thresholds are 10
ErrThreshold == 10
RelErrThreshold == 10
\* the three calls of DynamiteTest in RunDynamiteTests
TestConfigs == <<[N |-> 1, dataType |-> "Double", device |-> "GPU0"],
                 [N |-> 3, dataType |-> "Double", device |-> "CPU"],
                 [N |-> 3, dataType |-> "Float", device |-> "GPU0"]>>
NumConfigs == Len(TestConfigs)
\* the table of operations: a binary, a unary and a reduction over tensors of
\* TensorSize elements
TensorSize == 2
Tests == <<[name |-> "Sum", arity |-> 2],
           [name |-> "Negate", arity |-> 1],
           [name |-> "ReduceSum", arity |-> 1]>>
NumTests == Len(Tests)
LogicError == "LogicError"

\* RandomTestTensor: a tensor fixed by the seed
RandomTestTensor(s) == [j \in 1 .. TensorSize |-> (((s * 7 + j * 3) % 5) - 2) * 100]
\* the argument sets of a case: allArgValues[n][i], drawn with consecutive seeds
AllArgValues(test, N, s) ==
    [n \in 1 .. N |-> [i \in 1 .. test.arity |->
        RandomTestTensor(s + (n - 1) * test.arity + (i - 1))]]
\* test.op.first(argValues): the reference tensor operation
TensorOp(name, argValues) ==
    CASE name = "Negate" -> [j \in 1 .. TensorSize |-> 0 - argValues[1][j]]
      [] name = "Sum" -> [j \in 1 .. TensorSize |-> argValues[1][j] + argValues[2][j]]
      [] name = "ReduceSum" -> <<argValues[1][1] + argValues[1][2]>>
TensorPlus(x, y) == [j \in 1 .. Len(x) |-> x[j] + y[j]]
\* refVal after n argument sets: refVal1 for the first, refVal + refVal1 after
RECURSIVE RefVal(_, _, _)
RefVal(test, allArgValues, n) ==
    IF n = 1 THEN TensorOp(test.name, allArgValues[1])
    ELSE TensorPlus(RefVal(test, allArgValues, n - 1), TensorOp(test.name, allArgValues[n]))
\* resVar.Value(): what the batched evaluation of the sum can return for a reference
\* value: each element off by one of these amounts, or a tensor of another shape
ElementErrors == {0, 2, 4}
ResVal(refVal) ==
    {TensorPlus(refVal, e) : e \in [1 .. Len(refVal) -> ElementErrors]}
        \cup {Append(refVal, 0)}
\* the relative errors the gradient check can find for one argument
RelErrs == {0, 10, 20}

RECURSIVE SumSqrOfDifference(_, _, _)
SumSqrOfDifference(x, y, n) ==
    IF n = 0 THEN 0
    ELSE (x[n] - y[n]) * (x[n] - y[n]) + SumSqrOfDifference(x, y, n - 1)
\* AvSqrErr: LogicError is thrown if the shapes differ, else the sum of the squared
\* differences over the number of elements, kept as a fraction
AvSqrErr(resVal, refVal) ==
    IF Len(resVal) # Len(refVal) THEN [thrown |-> TRUE, num |-> 0, den |-> 1]
    ELSE [thrown |-> FALSE, num |-> SumSqrOfDifference(resVal, refVal, Len(refVal)),
          den |-> Len(refVal)]
\* a test that counts an error at the threshold too
ReachesThreshold(err) == err.num >= ErrThreshold * err.den
\* if (avSqrErr > 1e-5)
ExceedsThreshold(err) == err.num > ErrThreshold * err.den

\* one pass of the loop over the table in DynamiteTest: the arguments, the reference
\* sum, the batched sum, the error test and, for Double, the gradient check
DynamiteTestCase ==
    /\ testResult = Running
    /\ testConfig <= NumConfigs
    /\ testIndex <= NumTests
    /\ LET cfg == TestConfigs[testConfig]
           test == Tests[testIndex]
           refVal == RefVal(test, AllArgValues(test, cfg.N, seed), cfg.N)
       IN \E resVal \in ResVal(refVal), relErr \in [1 .. test.arity -> RelErrs] :
             LET err == AvSqrErr(resVal, refVal)
             IN /\ avSqrErr' = err
                /\ IF err.thrown
                   THEN /\ testResult' = LogicError
                        /\ UNCHANGED <<testIndex, seed, numFailed, gradientLog>>
                   ELSE /\ numFailed' = IF ExceedsThreshold(err) THEN numFailed + 1
                                        ELSE numFailed
                        /\ gradientLog' = IF cfg.dataType = "Double"
                                          THEN Cardinality({i \in 1 .. test.arity :
                                                   relErr[i] > RelErrThreshold})
                                          ELSE 0
                        /\ seed' = seed + cfg.N * test.arity
                                     + IF cfg.dataType = "Double" THEN test.arity ELSE 0
                        /\ testIndex' = testIndex + 1
                        /\ UNCHANGED testResult
    /\ UNCHANGED <<testConfig, runNumFailed, queueVars, threadVars, aggregatorVars>>

\* return numFailed; and numFailed += DynamiteTest(...) in RunDynamiteTests
DynamiteTest ==
    /\ testResult = Running
    /\ testConfig <= NumConfigs
    /\ testIndex = NumTests + 1
    /\ runNumFailed' = runNumFailed + numFailed
    /\ testConfig' = testConfig + 1
    /\ testIndex' = 1
    /\ seed' = FirstSeed
    /\ numFailed' = 0
    /\ UNCHANGED <<testResult, avSqrErr, gradientLog, queueVars, threadVars,
                   aggregatorVars>>

\* the end of RunDynamiteTests: if (numFailed > 0) LogicError(...)
RunDynamiteTests ==
    /\ testResult = Running
    /\ testConfig = NumConfigs + 1
    /\ testResult' = IF runNumFailed > 0 THEN LogicError ELSE Returned
    /\ UNCHANGED <<testConfig, testIndex, seed, numFailed, runNumFailed, avSqrErr,
                   gradientLog, queueVars, threadVars, aggregatorVars>>

InitTest ==
    /\ InitEnv({1}, {FALSE}, {0}, {NoFailure}, {}) /\ InitRanks
    /\ ~ncclSupported /\ ~useGpuGdr /\ deviceId = CPUDEVICE /\ ~allocFails
NextTest == DynamiteTestCase \/ DynamiteTest \/ RunDynamiteTests
SpecTest == InitTest /\ [][NextTest]_vars

InitSync == InitEnv(1 .. MaxProc, {FALSE}, PackThresholds, {NoFailure}, {}) /\ InitRanks
NextSync == \/ \E r \in Ranks : AggregateGradients(r)
            \/ Pipeline
SpecSync == InitSync /\ [][NextSync]_vars

\* packing is off in async mode whatever the threshold: one threshold, under which
\* sync mode would pack every tensor
InitAsync == InitEnv(1 .. MaxProc, {TRUE}, {ElemSize * NumGrads}, {NoFailure}, {}) /\ InitRanks
NextAsync == \/ \E r \in Ranks : AggregateGradients(r)
             \/ \E r \in Ranks : SwapAndDispatch(r)
             \/ \E r \in Ranks : AsyncAggregateGradHeader(r)
             \/ AsyncAggregateGradHeaderImpl
             \/ Pipeline
SpecAsync == InitAsync /\ [][NextAsync]_vars

\* both modes, every operation of the aggregator
InitAll == InitSync \/ InitAsync
NextAll == NextAsync
SpecAll == InitAll /\ [][NextAll]_vars

\* the first calls of the ranks, in both modes under every threshold
InitFirstCall == InitEnv(1 .. MaxProc, BOOLEAN, PackThresholds, {NoFailure}, {}) /\ InitRanks
NextFirstCall == \E r \in Ranks : AggregateGradients(r)
SpecFirstCall == InitFirstCall /\ [][NextFirstCall]_vars

\* sync mode, with one transport call that reports failure
InitFailure == InitEnv(2 .. MaxProc, {FALSE}, PackThresholds, TransportCalls, {}) /\ InitRanks
NextFailure == NextSync
SpecFailure == InitFailure /\ [][NextFailure]_vars

\* sync mode in a world of three ranks, where the headers of two peers complete in
\* either order
FoldWorld == MaxProc + 1
InitFold == InitEnv({FoldWorld}, {FALSE}, {ElemSize}, {NoFailure}, {}) /\ InitRanks
NextFold == NextSync
SpecFold == InitFold /\ [][NextFold]_vars

\* the same world with a wait-any that may report MPI_UNDEFINED early
InitNone == InitEnv({FoldWorld}, {FALSE}, {ElemSize}, {NoFailure}, {"none"}) /\ InitRanks
NextNone == NextSync
SpecNone == InitNone /\ [][NextNone]_vars

\* the world of three ranks with criterion values whose sums are rounded
InitFloat == InitEnv({FoldWorld}, {FALSE}, {ElemSize}, {NoFailure}, {"large"}) /\ InitRanks
NextFloat == NextSync
SpecFloat == InitFloat /\ [][NextFloat]_vars

\* threads that call the operations of one threadsafe_queue in any order; a thread
\* that can take a step of its operation eventually takes one
InitQueue ==
    /\ InitEnv({1}, {FALSE}, {0}, {NoFailure}, {}) /\ InitRanks
    /\ ~ncclSupported /\ ~useGpuGdr /\ deviceId = CPUDEVICE /\ ~allocFails
NextQueue == \/ \E t \in Threads : AnyCall(t)
             \/ \E t \in Threads : Lock(t)
             \/ \E t \in Threads : Push(t)
             \/ \E t \in Threads : WaitAndPop(t)
             \/ \E t \in Threads : TryPop(t)
             \/ \E t \in Threads : Empty(t)
             \/ \E t \in Threads : SpuriousWake(t)
SpecQueue == InitQueue /\ [][NextQueue]_vars /\ WF_vars(\E t \in Threads : QueueStep(t))

\* both modes, callers that may pass a sparse tensor in any call
InitSparse == InitEnv(2 .. MaxProc, BOOLEAN, {ElemSize}, {NoFailure}, {"sparse"}) /\ InitRanks
NextSparse == \/ \E r \in Ranks : AggregateGradients(r)
              \/ \E r \in Ranks : SwapAndDispatch(r)
              \/ Pipeline
SpecSparse == InitSparse /\ [][NextSparse]_vars

\* async mode, callers that may pass another tensor object or a tensor of another
\* shape after the first call
InitShadow == InitEnv(2 .. MaxProc, {TRUE}, {ElemSize * NumGrads}, {NoFailure},
                      {"handle", "shape"}) /\ InitRanks
NextShadow == \/ \E r \in Ranks : AggregateGradients(r)
              \/ \E r \in Ranks : SwapAndDispatch(r)
              \/ Pipeline
SpecShadow == InitShadow /\ [][NextShadow]_vars

\* async mode, aggregators that are destroyed between two calls
InitDestroy == InitEnv(2 .. MaxProc, {TRUE}, {ElemSize * NumGrads}, {NoFailure}, {})
               /\ InitRanks
NextDestroy == \/ \E r \in Ranks : AggregateGradients(r)
               \/ \E r \in Ranks : SwapAndDispatch(r)
               \/ Pipeline
               \/ \E r \in Ranks : Destructor(r)
               \/ \E r \in Ranks : FutureDestructor(r)
               \/ \E r \in Ranks : UseAfterFree(r)
SpecDestroy == InitDestroy /\ [][NextDestroy]_vars

\* sync mode, callers that may pass a tensor of another size after the first call
InitResized == InitEnv(2 .. MaxProc, {FALSE}, PackThresholds, {NoFailure}, {"shape"})
               /\ InitRanks
NextResized == \/ \E r \in Ranks : AggregateGradients(r)
               \/ Pipeline
SpecResized == InitResized /\ [][NextResized]_vars

\* DistributedCheck on every rank, with any process number
InitCheck == InitEnv(1 .. MaxProc, BOOLEAN, {ElemSize}, {NoFailure}, {}) /\ InitRanks
NextCheck == \/ \E r \in Ranks : DistributedCheck(r)
             \/ AllGatherAndCheck
SpecCheck == InitCheck /\ [][NextCheck]_vars

\* DistributedInit and DistributedAllReduce on every rank of a multi-rank world
InitReduce == InitEnv(2 .. MaxProc, BOOLEAN, {ElemSize}, {NoFailure}, {}) /\ InitRanks
NextReduce == \/ \E r \in Ranks : DistributedInit(r)
              \/ \E r \in Ranks : DistributedAllReduce(r)
              \/ DistributedAllReduceImpl
SpecReduce == InitReduce /\ [][NextReduce]_vars

InitSingle == InitEnv({1}, BOOLEAN, PackThresholds, {NoFailure}, {}) /\ InitRanks
NextSingle == \E r \in Ranks : AggregateGradients(r)
SpecSingle == InitSingle /\ [][NextSingle]_vars

(* ------------------------------ properties ------------------------------ *)
\* what rank q contributes to the reduction of call k
Contribution(q, k) ==
    IF submitted[q][k].numSamples = 0
    THEN [p \in 1 .. NumGrads |-> NewMatrix(1, p)]
    ELSE FreshGradients(q, k)
\* the elementwise sum over all ranks of the tensors of call k
SumOfSubmitted(k) ==
    [p \in 1 .. NumGrads |->
        [numRows |-> 1, numCols |-> p, matrixType |-> DENSE,
         data |-> [j \in 1 .. p |-> RankSum([q \in Ranks |-> Contribution(q, k)[p].data[j]])]]]
\* the elementwise sum over all ranks of the headers of call k
SumOfHeaders(k) ==
    [numSamples |-> RankSum([q \in Ranks |-> submitted[q][k].numSamples]),
     numSamplesWithLabel |-> RankSum([q \in Ranks |-> submitted[q][k].numSamplesWithLabel]),
     criterion |-> RankSum([q \in Ranks |-> submitted[q][k].criterion]),
     evalErrors |-> [e \in 1 .. NumEvalNode |->
        <<RankSum([q \in Ranks |-> submitted[q][k].evalErrors[e][1]]),
          RankSum([q \in Ranks |-> submitted[q][k].evalErrors[e][2]])>>]]
ZeroGradients == [p \in 1 .. NumGrads |-> NewMatrix(1, p)]

\* sync mode, W >= 2: the same AggregateGradients call has returned on every rank
SyncReturned ==
    /\ ~m_useAsyncAggregation
    /\ NumProc >= 2
    /\ \A r \in Ranks : pc[r] = "idle" /\ retval[r] # NoRet /\ calls[r] = calls[mainRank]
\* async mode, W >= 2: AggregateGradients has returned on rank r and r has not
\* called it again
AsyncReturned(r) ==
    /\ m_useAsyncAggregation
    /\ NumProc >= 2
    /\ pc[r] = "idle"
    /\ retval[r] # NoRet

\* C1: in sync mode with W >= 2, once AggregateGradients has returned on every rank,
\* every gradient tensor on every rank is the elementwise sum over the ranks of the
\* tensors submitted at its position (zeros for a rank without samples), on every
\* transport and for packed and standalone gradients.
C1_SyncAllReduce ==
    SyncReturned => \A r \in Ranks : gradients[r] = SumOfSubmitted(calls[r])

\* C2: with W >= 2, after an aggregation has completed on all ranks the header of
\* every rank, main or not, is the same and is the elementwise sum of the W headers
\* the ranks passed in.
C2_HeaderSum ==
    SyncReturned => \A r \in Ranks : headerCPU[r] = SumOfHeaders(calls[r])
C2_Witness ==
    /\ SyncReturned
    /\ \A q \in Ranks : submitted[q][calls[q]].numSamples # 0
    /\ \A r \in Ranks : headerCPU[r].numSamples > submitted[r][calls[r]].numSamples

\* C3: with world size 1 AggregateGradients returns (numSamples != 0) of the header
\* it was passed and changes nothing: header and gradients are as passed, nothing is
\* in flight, and no aggregator state is initialized, in sync and in async mode and
\* whatever resetState is.
C3_SingleNode ==
    \A r \in Ranks : (NumProc = 1 /\ calls[r] > 0) =>
        /\ pc[r] = "idle"
        /\ retval[r] = Ret(submitted[r][calls[r]].numSamples # 0)
        /\ headerCPU[r] = submitted[r][calls[r]]
        /\ gradients[r] = FreshGradients(r, calls[r])
        /\ impl = NoImpl
        /\ ~m_initialized[r] /\ m_iterationCount[r] = 0 /\ ~m_nccl[r]
        /\ m_bufferedGradients[r] = <<>> /\ m_bufferedGradHeader[r] = NULL
        /\ m_pendingAsyncAggregation[r] = NoTask /\ tasks[r] = {}
        /\ m_packedGradientsIndex[r] = <<>> /\ m_gradientIndexToAggregate[r] = <<>>
        /\ m_aggregationBuffer[r] = NULL
        /\ m_intermediateCPUBuffers[r] = <<>> /\ m_recvHeaders[r] = <<>>
C3_Witness ==
    /\ NumProc = 1
    /\ m_useAsyncAggregation
    /\ calls[0] = 2
    /\ retval[0] = Ret(FALSE)
    /\ submitted[0][1].numSamples # 0

\* C4: in sync mode with W >= 2 AggregateGradients returns true iff at least one
\* rank submitted a header with numSamples != 0, so all ranks return the same value.
C4_SyncReturnValue ==
    SyncReturned =>
        \A r \in Ranks :
            retval[r] = Ret(\E q \in Ranks : submitted[q][calls[r]].numSamples # 0)
C4_Witness ==
    /\ SyncReturned
    /\ retval[mainRank] = Ret(TRUE)
    /\ submitted[mainRank][calls[mainRank]].numSamples = 0

\* C5: in async mode with W >= 2 AggregateGradients returns true iff it dispatched a
\* task in that call; it dispatches one iff resetState is true or the header the
\* caller holds after the swap has numSamples != 0; after a false return no task is
\* pending.
C5_AsyncReturnValue ==
    \A r \in Ranks : AsyncReturned(r) =>
        LET dispatched == m_pendingAsyncAggregation[r] = calls[r] IN
        /\ retval[r] = Ret(dispatched)
        /\ dispatched <=> (resetState[r] \/ headerCPU[r].numSamples # 0)
        /\ ~dispatched => (m_pendingAsyncAggregation[r] = NoTask /\ tasks[r] = {})
C5_Witness ==
    \E r \in Ranks :
        /\ AsyncReturned(r)
        /\ calls[r] = 2
        /\ retval[r] = Ret(FALSE)
        /\ submitted[r][2].numSamples # 0

\* C6: async equivalence: what the caller observes after the k-th async call
\* (k >= 2) is what the sync aggregator returns for iteration k-1, and after the
\* first call it is zero; no gradients come back unreduced.
C6_AsyncEquivalence ==
    \A r \in Ranks : AsyncReturned(r) =>
        IF calls[r] = 1
        THEN gradients[r] = ZeroGradients /\ headerCPU[r] = HeaderCreate(NumEvalNode)
        ELSE (\A q \in Ranks : Len(submitted[q]) >= calls[r] - 1) =>
                /\ gradients[r] = SumOfSubmitted(calls[r] - 1)
                /\ headerCPU[r] = SumOfHeaders(calls[r] - 1)

\* the submitted values of the first call are in the shadow as long as no
\* reduction has worked on them
ShadowHoldsFirstCall(r) ==
    (impl.stage = "idle" /\ (tasks[r] # {} \/ retval[r] = Ret(FALSE))) =>
        /\ m_bufferedGradients[r] = FreshGradients(r, 1)
        /\ m_bufferedGradHeader[r] = submitted[r][1]
FirstCallWithSamples(r) ==
    AsyncReturned(r) /\ calls[r] = 1 /\ submitted[r][1].numSamples # 0

C8_OneTask ==
    \A r \in Ranks :
        /\ Cardinality(tasks[r]) <= 1
        /\ tasks[r] \subseteq {m_pendingAsyncAggregation[r]}
        /\ AsyncReturned(r) => tasks[r] \subseteq {calls[r]}
C8_Witness ==
    \E r \in Ranks : AsyncReturned(r) /\ calls[r] = 2 /\ tasks[r] = {2}

\* a step of the main thread of rank r
MainThreadStep(r) ==
    pc'[r] # pc[r] \/ calls'[r] # calls[r] \/ hdrCalls'[r] # hdrCalls[r]
\* C9: while a task is in flight the main thread does not touch what the task
\* uses: the shadow tensors, the shadow header, the staging buffers, the
\* receive-header slots.
C9_TaskOwnsItsObjects ==
    [][\A r \in Ranks : (tasks[r] # {} /\ MainThreadStep(r)) =>
            /\ m_bufferedGradients'[r] = m_bufferedGradients[r]
            /\ m_bufferedGradHeader'[r] = m_bufferedGradHeader[r]
            /\ m_intermediateCPUBuffers'[r] = m_intermediateCPUBuffers[r]
            /\ m_recvHeaders'[r] = m_recvHeaders[r]]_vars

\* C10: in async mode on an initialized aggregator a call with resetState = true
\* made while the future of a dispatched task is still held ends in a fatal logic
\* error, with no shadow zeroed and nothing swapped.
C10_ResetWhilePending ==
    [][\A r \in Ranks :
        (/\ m_useAsyncAggregation /\ NumProc >= 2
         /\ calls'[r] # calls[r]
         /\ m_initialized[r] /\ resetState'[r]
         /\ m_pendingAsyncAggregation[r] # NoTask) =>
            /\ pc'[r] = "fatal"
            /\ m_bufferedGradients'[r] = m_bufferedGradients[r]
            /\ m_bufferedGradHeader'[r] = m_bufferedGradHeader[r]
            /\ gradients'[r] = FreshGradients(r, calls'[r])
            /\ headerCPU'[r] = submitted'[r][calls'[r]]
            /\ m_pendingAsyncAggregation'[r] = m_pendingAsyncAggregation[r]]_vars
C10_Witness ==
    \E r \in Ranks :
        /\ pc[r] = "fatal"
        /\ resetState[r]
        /\ m_pendingAsyncAggregation[r] # NoTask
        /\ m_bufferedGradients[r] # ZeroGradients

\* C11: in async mode on an initialized aggregator with no pending task, a call with
\* resetState = true zeroes every shadow gradient and clears the shadow header
\* before the swap, so on return the caller's gradients and header are all zero and
\* a reduction of the submitted values is dispatched (true is returned) whatever
\* their sample count.  In sync mode resetState on an initialized aggregator changes
\* no state of the aggregator.
C11_ResetZeroesShadows ==
    [][\A r \in Ranks :
        /\ (/\ m_useAsyncAggregation /\ NumProc >= 2
            /\ calls'[r] # calls[r]
            /\ m_initialized[r] /\ resetState'[r]
            /\ m_pendingAsyncAggregation[r] = NoTask) =>
                /\ pc'[r] = "join"
                /\ m_bufferedGradients'[r] = ZeroGradients
                /\ m_bufferedGradHeader'[r] = HeaderCreate(NumEvalNode)
        /\ (/\ m_useAsyncAggregation
            /\ pc[r] = "join" /\ pc'[r] # pc[r]
            /\ calls[r] >= 2 /\ resetState[r]) =>
                /\ pc'[r] = "idle"
                /\ gradients'[r] = ZeroGradients
                /\ headerCPU'[r] = HeaderCreate(NumEvalNode)
                /\ retval'[r] = Ret(TRUE)
                /\ m_pendingAsyncAggregation'[r] = calls[r]
                /\ calls[r] \in tasks'[r]
                /\ m_bufferedGradients'[r] = FreshGradients(r, calls[r])
                /\ m_bufferedGradHeader'[r] = submitted[r][calls[r]]
        /\ (/\ ~m_useAsyncAggregation /\ NumProc >= 2
            /\ calls'[r] # calls[r]
            /\ m_initialized[r] /\ resetState'[r]) =>
                /\ pc'[r] = "impl"
                /\ m_initialized'[r]
                /\ m_packedGradientsIndex'[r] = m_packedGradientsIndex[r]
                /\ m_gradientIndexToAggregate'[r] = m_gradientIndexToAggregate[r]
                /\ m_aggregationBuffer'[r] = m_aggregationBuffer[r]
                /\ m_intermediateCPUBuffers'[r] = m_intermediateCPUBuffers[r]
                /\ m_recvHeaders'[r] = m_recvHeaders[r]
                /\ m_bufferedGradients'[r] = m_bufferedGradients[r]
                /\ m_bufferedGradHeader'[r] = m_bufferedGradHeader[r]
                /\ m_pendingAsyncAggregation'[r] = m_pendingAsyncAggregation[r]
                /\ tasks'[r] = tasks[r]]_vars
C11_Witness ==
    \E r \in Ranks :
        /\ AsyncReturned(r)
        /\ calls[r] = 2 /\ resetState[r]
        /\ submitted[r][1].numSamples # 0
        /\ submitted[r][2].numSamples = 0
        /\ retval[r] = Ret(TRUE)
        /\ gradients[r] = ZeroGradients
        /\ m_pendingAsyncAggregation[r] = 2

\* the strategy the branch table gives for (nccl_supported, use_gdr, device)
BranchTable ==
    IF ncclSupported THEN "nccl"
    ELSE IF deviceId = CPUDEVICE THEN "iallreduce"
         ELSE IF useGpuGdr THEN "allreduce" ELSE "staged"
\* the reduction stage of the pipeline is over
ReductionsIssued == impl.stage \in {"fold", "finish"}
StrategiesRun == {impl.reductions[k].strategy : k \in 1 .. Len(impl.reductions)}

\* C12: for every combination of (nccl_supported, use_gdr, device is CPU) exactly one
\* reduction strategy runs in the pipeline and it is the one of the branch table:
\* NCCL whenever nccl is supported; staged when !nccl, !gdr, GPU; blocking all-reduce
\* when !nccl, gdr, GPU; non-blocking all-reduce on each tensor followed by a wait on
\* all requests whenever !nccl and the device is the CPU, for both values of use_gdr.
C12_BranchTable ==
    ReductionsIssued =>
        /\ StrategiesRun = {BranchTable}
        /\ BranchTable = "iallreduce" =>
                CompletionWait(impl.allReduceIndex) =
                    [wait |-> "Wait", n |-> Len(impl.reductions)]

\* the pipeline has zeroed and packed, and has issued no reduction yet
BeforeReductions == impl.stage = "reduce" /\ impl.reductions = <<>>
\* every tensor of rank r, and every element of its packed buffer, is zero
AllZero(r) ==
    /\ ImplGradients(r) = ZeroGradients
    /\ m_aggregationBuffer[r] # NULL =>
            \A j \in 1 .. Len(m_aggregationBuffer[r].data) : m_aggregationBuffer[r].data[j] = 0
ZeroedBeforeReductions ==
    BeforeReductions => \A r \in Ranks : ImplHeader(r).numSamples = 0 => AllZero(r)
\* the elementwise sum of the tensors the ranks with samples submitted in call k
SumOfOthers(k) ==
    [p \in 1 .. NumGrads |->
        [numRows |-> 1, numCols |-> p, matrixType |-> DENSE,
         data |-> [j \in 1 .. p |->
            RankSum([q \in Ranks |-> IF submitted[q][k].numSamples = 0 THEN 0
                                     ELSE FreshGradients(q, k)[p].data[j]])]]]

\* C13: a rank that enters the pipeline with numSamples = 0 has all its gradient
\* tensors set to zero before they are packed, staged or handed to any all-reduce,
\* so the result on every rank is the sum of the other ranks' gradients.
C13_ZeroSamples ==
    /\ ZeroedBeforeReductions
    /\ (SyncReturned /\ \E q \in Ranks : submitted[q][calls[q]].numSamples = 0) =>
            \A r \in Ranks : gradients[r] = SumOfOthers(calls[r])

\* position i (0-based) occurs in the list s
InList(i, s) == \E k \in 1 .. Len(s) : s[k] = i
Positions == 0 .. (NumGrads - 1)
\* the byte size of the tensor at position i
ByteSize(i) == ElemSize * (i + 1)

\* C14: at initialization the gradient at position i is classified as packed iff
\* async aggregation is disabled and sizeof(element) * element_count(i) <= the pack
\* threshold, a gradient of exactly the threshold size included; with async
\* aggregation enabled no gradient is packed and no packed buffer is allocated,
\* whatever the threshold.  The list the aggregator keeps is the classified one
\* whenever the packed buffer exists.
C14_Classification ==
    \A r \in Ranks : m_initialized[r] =>
        LET c == Classify(FreshGradients(r, 1)) IN
        /\ \A i \in Positions :
                InList(i, c.packed) <=>
                    (~m_useAsyncAggregation /\ ByteSize(i) <= m_packThresholdSizeInBytes)
        /\ m_aggregationBuffer[r] # NULL => m_packedGradientsIndex[r] = c.packed
        /\ m_useAsyncAggregation =>
                m_packedGradientsIndex[r] = <<>> /\ m_aggregationBuffer[r] = NULL
C14_Witness ==
    \E r \in Ranks :
        /\ m_initialized[r]
        /\ ~m_useAsyncAggregation
        /\ m_packThresholdSizeInBytes = ByteSize(0)
        /\ m_packedGradientsIndex[r] = <<0>>
        /\ m_gradientIndexToAggregate[r] = <<NONE>> \o [k \in 1 .. NumGrads - 1 |-> k]

\* the number of occurrences of x in the list s
Occurrences(x, s) == Cardinality({k \in 1 .. Len(s) : s[k] = x})

\* C15: after initialization and in every later state every position 0 .. N-1 is in
\* exactly one of m_packedGradientsIndex and m_gradientIndexToAggregate, neither
\* list holds a position twice, and the sentinel NONE is in the standalone list iff
\* the packed list is non-empty, in which case it occurs exactly once, at index 0.
C15_Partition ==
    \A r \in Ranks : m_initialized[r] =>
        LET packed == m_packedGradientsIndex[r]
            agg == m_gradientIndexToAggregate[r]
        IN /\ \A i \in Positions : Occurrences(i, packed) + Occurrences(i, agg) = 1
           /\ \A k \in 1 .. Len(packed) : packed[k] \in Positions
           /\ \A k \in 1 .. Len(agg) : agg[k] \in Positions \cup {NONE}
           /\ InList(NONE, agg) <=> packed # <<>>
           /\ packed # <<>> => (Occurrences(NONE, agg) = 1 /\ agg[1] = NONE)
C15_Witness ==
    \E r \in Ranks :
        /\ SyncReturned /\ calls[r] = 2
        /\ Len(m_packedGradientsIndex[r]) = 1
        /\ Len(m_gradientIndexToAggregate[r]) = NumGrads
        /\ m_gradientIndexToAggregate[r][1] = NONE

RECURSIVE SumOfCounts(_)
\* the total element count of the tensors at positions 0 .. n-1
SumOfCounts(n) == IF n = 0 THEN 0 ELSE n + SumOfCounts(n - 1)
\* the standalone positions of the main rank's list
Standalone == {k \in 1 .. Len(m_gradientIndexToAggregate[mainRank]) :
                    m_gradientIndexToAggregate[mainRank][k] # NONE}

\* C16: one aggregation issues as many gradient reductions as there are standalone
\* gradients, plus one if any gradient is packed: with every gradient packed (sync
\* mode, all at or below the threshold) exactly one all-reduce is issued, over a
\* buffer of 1 row and sum-of-element-counts columns; with async enabled N gradients
\* give N separate reductions.
C16_ReductionCount ==
    ReductionsIssued =>
        LET packed == m_packedGradientsIndex[mainRank]
            buf == m_aggregationBuffer[mainRank]
        IN /\ Len(impl.reductions) =
                    Cardinality(Standalone) + (IF packed # <<>> THEN 1 ELSE 0)
           /\ (~m_useAsyncAggregation /\ Len(packed) = NumGrads) =>
                    /\ Len(impl.reductions) = 1
                    /\ impl.reductions[1].entry = NONE
                    /\ impl.reductions[1].count = SumOfCounts(NumGrads)
                    /\ buf.numRows = 1 /\ buf.numCols = SumOfCounts(NumGrads)
           /\ m_useAsyncAggregation =>
                    /\ Len(impl.reductions) = NumGrads
                    /\ \A i \in Positions :
                            \E k \in 1 .. NumGrads :
                                /\ impl.reductions[k].entry = i
                                /\ impl.reductions[k].count = i + 1

\* what rank r holds after call k when nothing is packed (threshold 0): every tensor
\* is handed to the reduction on its own
StandaloneResult(r, k) ==
    IF TransportBranch = "skip" THEN Contribution(r, k) ELSE SumOfSubmitted(k)
PackingActive(r) == m_packedGradientsIndex[r] # <<>>

\* C17: partition invariance: for the same inputs of the ranks, the gradients every
\* rank holds after a sync aggregation are the same under every pack threshold:
\* with some or all gradients packed they equal those obtained with threshold 0,
\* where every gradient is standalone.
C17_PartitionInvariance ==
    SyncReturned =>
        \A r \in Ranks :
            /\ m_packThresholdSizeInBytes = 0 => ~PackingActive(r)
            /\ gradients[r] = StandaloneResult(r, calls[r])
C17_Witness ==
    /\ SyncReturned
    /\ calls[mainRank] = 2
    /\ \A r \in Ranks : /\ Len(m_packedGradientsIndex[r]) = 1
                         /\ submitted[r][2].numSamples # 0
                         /\ gradients[r] = SumOfSubmitted(2)

\* the packed element total the classification loop arrives at
PackedTotal(r) == Classify(FreshGradients(r, 1)).size
\* the entries of m_gradientIndexToAggregate the pipeline has reduced so far
ReducedEntries == {impl.reductions[k].entry : k \in 1 .. Len(impl.reductions)}

\* C18: if allocating the packed buffer fails at initialization, or the packed
\* element total is 0, the aggregator falls back to all-standalone: the packed list
\* is empty, the standalone list is exactly 0 .. N-1 in increasing order without the
\* NONE sentinel, and no later aggregation uses the packed buffer, which stays null.
C18_AllocFallback ==
    \A r \in Ranks : (m_initialized[r] /\ (allocFails \/ PackedTotal(r) = 0)) =>
        /\ m_aggregationBuffer[r] = NULL
        /\ m_packedGradientsIndex[r] = <<>>
        /\ m_gradientIndexToAggregate[r] = [k \in 1 .. NumGrads |-> k - 1]
        /\ NONE \notin ReducedEntries
C18_Witness ==
    /\ SyncReturned
    /\ allocFails
    /\ calls[mainRank] = 2
    /\ \A r \in Ranks : /\ PackedTotal(r) = SumOfCounts(NumGrads)
                         /\ m_aggregationBuffer[r] = NULL
                         /\ submitted[r][2].numSamples # 0
                         /\ gradients[r] = StandaloneResult(r, 2)

\* rank r has called an operation that sets up the receive headers
HeadersSetUp(r) == m_initialized[r] \/ (hdrCalls[r] > 0 /\ NumProc >= 2)

\* C19: after any sequence of AggregateGradients calls (either mode, with or without
\* resetState) and AsyncAggregateGradHeader calls, m_recvHeaders has length
\* NumProc - 1 on the main rank and length 0 on every other rank.
C19_RecvHeadersLength ==
    \A r \in Ranks : HeadersSetUp(r) =>
        Len(m_recvHeaders[r]) = IF IsMainNode(r) THEN NumProc - 1 ELSE 0

\* the transport calls one aggregation makes, by branch
CallsMade ==
    {"Irecv", "Isend", "Waitany", "Bcast", "Wait"}
        \cup (IF TransportBranch \in {"staged", "allreduce"} THEN {"AllReduce"} ELSE {})
        \cup (IF TransportBranch = "iallreduce" THEN {"Iallreduce"} ELSE {})
        \cup (IF TransportBranch = "nccl" THEN {"ncclAllReduce", "ncclSync"} ELSE {})

\* C20: if any transport call made during an aggregation reports failure (Irecv,
\* Isend, Iallreduce, blocking AllReduce, Waitany, Wait, Bcast or an NCCL call), the
\* aggregation ends in a fatal error: AggregateGradients returns no result to the
\* caller.
C20_TransportFailureFatal ==
    (NumProc >= 2 /\ failingCall \in CallsMade) =>
        \A r \in Ranks : retval[r] = NoRet /\ pc[r] \in {"idle", "impl", "fatal"}
                          /\ (pc[r] = "idle" => calls[r] = 0)

\* the call a rank is in or has last made has a tensor that is not dense in its list
SparseSubmitted(r) ==
    /\ calls[r] >= 1
    /\ pc[r] # "idle"
    /\ \E p \in 1 .. NumGrads : gradients[r][p].matrixType # DENSE

\* C21: a call of AggregateGradients on a multi-rank aggregator whose gradient list
\* holds a tensor that is not dense ends in a fatal error, whether it is the first
\* call or a later one: the rank never gets into the pipeline with that list, and
\* no reduction is issued for it
C21_SparseRejected ==
    \A r \in Ranks :
        (NumProc > 1 /\ SparseSubmitted(r)) =>
            /\ pc[r] = "fatal"
            /\ retval[r] = NoRet
            /\ impl.reductions = <<>>

\* the first call of a rank with a tensor that is not dense ends in a fatal error
\* before any buffer is allocated
FirstCallSparseRejected ==
    \A r \in Ranks :
        (NumProc > 1 /\ SparseSubmitted(r) /\ calls[r] = 1) =>
            /\ pc[r] = "fatal"
            /\ retval[r] = NoRet
            /\ m_bufferedGradHeader[r] = NULL
            /\ m_intermediateCPUBuffers[r] = <<>>
            /\ m_aggregationBuffer[r] = NULL

\* the list of the call rank r is in, or has last made, has a tensor without a
\* matching shadow: its object was not seen when the shadows were made, or its shape
\* is not the shape of the shadow made for it
Unmatched(r) ==
    \E p \in 1 .. NumGrads :
        \/ handles[r][p] \notin 1 .. NumGrads
        \/ gradients[r][p].numCols # p
        \/ gradients[r][p].numRows # 1

\* C22: in async mode a call whose list has a gradient without a matching shadow ends
\* in a fatal logic error and dispatches no task; a call whose gradients all have a
\* matching shadow does not end in that error
C22_ShadowMismatch ==
    [][\A r \in Ranks :
        /\ (pc[r] # "idle" /\ pc'[r] # pc[r] /\ Unmatched(r)) =>
                /\ pc'[r] = "fatal"
                /\ tasks'[r] = tasks[r]
                /\ retval'[r] = NoRet
        /\ (pc[r] = "join" /\ pc'[r] # pc[r] /\ ~Unmatched(r)) => pc'[r] = "idle"
        /\ (pc[r] = "idle" /\ calls'[r] # calls[r] /\ Unmatched(r)') =>
                pc'[r] \in {"join", "fatal"}]_vars

\* a step of AggregateGradientsImpl that reads or writes the headers: the posting of
\* the header receives and sends, a pass of the wait-any loop, the broadcast
HeaderAccess == impl' # impl /\ impl.stage \in {"idle", "fold", "finish"}

\* C23: the destructor joins a running task before it frees the shadow header and
\* the receive headers: no task is running on a rank whose headers are freed, and
\* no step of a task uses the headers of such a rank
C23_JoinBeforeFree ==
    [][\A r \in Ranks :
        /\ lifetime'[r] = HeadersFreed => tasks'[r] = {}
        /\ (lifetime[r] = HeadersFreed /\ InPipeline(r)) => ~HeaderAccess]_vars

\* every rank has made its DistributedCheck call and the all-gather is over
CheckDone == \A r \in Ranks : checkArgs[r] # NoArgs /\ pc[r] # "check"
\* the minibatch sizes of the ranks 0 .. n-1 are all equal
SizesEqual(n) ==
    \A q \in Ranks : q < n => checkArgs[q].minibatchSize = checkArgs[0].minibatchSize

\* C24: DistributedCheck(minibatch_size, rank_count) returns true if and only if the
\* minibatch sizes gathered from the rank_count ranks are all equal, and every rank
\* returns the same answer
C24_DistributedCheck ==
    CheckDone =>
        /\ \A r \in Ranks : checkRetval[r] = Ret(SizesEqual(checkArgs[r].processNum))
        /\ \A r, q \in Ranks :
              checkArgs[r].processNum = checkArgs[q].processNum =>
                  checkRetval[r] = checkRetval[q]

\* with the number of ranks in use as rank_count, DistributedCheck returns true on
\* every rank if all minibatch sizes are equal and false on every rank if not
CheckWithNumProc ==
    (CheckDone /\ \A r \in Ranks : checkArgs[r].processNum = NumProc) =>
        \A r \in Ranks : checkRetval[r] = Ret(SizesEqual(NumProc))

\* every rank has made its DistributedAllReduce call and the collective is over
ReduceDone == \A r \in Ranks : distOp[r] # NoOp /\ pc[r] # "allreduce"

\* C25: DistributedAllReduce(tensor, op) selects its branch by the table of the
\* gradient pipeline; on the staged, the non-blocking CPU, the GDR-on-GPU and the
\* NCCL branch it returns with the tensor reduced with the caller's op, and with
\* GDR on CPU and no NCCL it ends in a fatal logic error with the tensor untouched
C25_DistributedAllReduce ==
    ReduceDone =>
        \A r \in Ranks :
            IF ~ncclSupported /\ useGpuGdr /\ deviceId = CPUDEVICE
            THEN /\ distOutcome[r] = "LogicError"
                 /\ pc[r] = "fatal"
                 /\ distMatrix[r] = DistTensor(r)
            ELSE /\ distOutcome[r] = Returned
                 /\ distMatrix[r].data =
                        [j \in 1 .. DistLen |->
                            ReduceWith(distOp[r], [q \in Ranks |-> DistTensor(q).data], j)]

\* off the GDR-on-GPU branch DistributedAllReduce does as C25 says
ReduceOffGdrGpu ==
    (ReduceDone /\ TransportBranch # "allreduce") =>
        \A r \in Ranks :
            IF TransportBranch = "skip"
            THEN distOutcome[r] = "LogicError" /\ distMatrix[r] = DistTensor(r)
            ELSE /\ distOutcome[r] = Returned
                 /\ distMatrix[r].data =
                        [j \in 1 .. DistLen |->
                            ReduceWith(distOp[r], [q \in Ranks |-> DistTensor(q).data], j)]

\* the lists and buffers are those the lazy initialization builds on rank r from the
\* list g
InitializedAs(r, g, packed, agg, buf, cpu) ==
    LET s == InitState(g, r) IN
    /\ packed = s.packed
    /\ agg = s.agg
    /\ (buf = NULL) = (s.buf = NULL)
    /\ buf # NULL => GetNumElements(buf) = GetNumElements(s.buf)
    /\ Len(cpu) = Len(s.cpu)
    /\ \A k \in 1 .. Len(cpu) : Len(cpu[k]) = Len(s.cpu[k])
InitializedFor(r, g) ==
    InitializedAs(r, g, m_packedGradientsIndex[r], m_gradientIndexToAggregate[r],
                  m_aggregationBuffer[r], m_intermediateCPUBuffers[r])

\* C26 as stated: the lazy initialization is performed on the first multi-rank call
\* and again on every later call with reset_state set, so that a rank in a call made
\* with reset_state works with the classification and the buffers of the list
\* passed to that call
C26_ReinitOnReset ==
    \A r \in Ranks :
        (pc[r] = "impl" /\ (resetState[r] \/ calls[r] = 1)) =>
            InitializedFor(r, gradients[r])

\* C26 amended: the lazy initialization is performed on the first multi-rank call
\* only; a later call, with or without reset_state, changes neither the
\* classification nor the packed buffer, the staging buffers and the receive
\* headers, whatever list it is passed
C26_InitOnce ==
    [][\A r \in Ranks :
        (calls'[r] # calls[r] /\ NumProc > 1) =>
            IF ~m_initialized[r]
            THEN /\ m_initialized'[r]
                 /\ InitializedAs(r, gradients'[r], m_packedGradientsIndex'[r],
                        m_gradientIndexToAggregate'[r], m_aggregationBuffer'[r],
                        m_intermediateCPUBuffers'[r])
                 /\ Len(m_recvHeaders'[r]) = IF IsMainNode(r) THEN NumProc - 1 ELSE 0
            ELSE /\ m_packedGradientsIndex'[r] = m_packedGradientsIndex[r]
                 /\ m_gradientIndexToAggregate'[r] = m_gradientIndexToAggregate[r]
                 /\ m_aggregationBuffer'[r] = m_aggregationBuffer[r]
                 /\ m_intermediateCPUBuffers'[r] = m_intermediateCPUBuffers[r]
                 /\ m_recvHeaders'[r] = m_recvHeaders[r]]_vars
\* a rank is in a later call made with reset_state and a list that the
\* initialization would classify differently
C26_Witness ==
    \E r \in Ranks :
        /\ pc[r] = "impl" /\ resetState[r] /\ calls[r] = 2
        /\ m_packedGradientsIndex[r] # InitState(gradients[r], r).packed

\* the position of a call in the log of the aggregation, 0 when it has not been made
Pos(kind, index) ==
    LET at == {p \in 1 .. Len(impl.events) : impl.events[p] = Event(kind, index)}
    IN IF at = {} THEN 0 ELSE CHOOSE p \in at : \A q \in at : p <= q
Happened(kind, index) == Pos(kind, index) # 0
\* both calls have been made, the first before the second
Before(kind1, index1, kind2, index2) ==
    /\ Happened(kind1, index1)
    /\ Happened(kind2, index2)
    /\ Pos(kind1, index1) < Pos(kind2, index2)
\* how many calls of a kind the log holds
CountOf(kind) == Cardinality({p \in 1 .. Len(impl.events) : impl.events[p].kind = kind})
StagedKinds == {"cudaMemcpyDeviceToHost", "CopyGPUToCPUAsync", "WaitForCopyGPUToCPUAsync",
                "AllReduce", "CopyCPUToGPUAsync", "WaitForCopyCPUToGPUAsync"}
\* the number of entries of m_gradientIndexToAggregate
NumEntries == Len(m_gradientIndexToAggregate[mainRank])

\* C27: in the staged pipeline over N entries the copy of entry 0 to the host is
\* complete before anything else; the copy of entry k+1 is issued before the
\* all-reduce of entry k; the copy of entry k is complete before the all-reduce of
\* slot k; that all-reduce is complete before the copy of slot k back to the device
\* is issued; the all-reduces run in the order 0 .. N-1, each with the element count
\* of its entry; every copy back is complete before the pipeline returns, and
\* exactly N all-reduces are issued
C27_StagedOrder ==
    TransportBranch = "staged" =>
        /\ \A p \in 1 .. Len(impl.events) :
              impl.events[p].kind \in StagedKinds =>
                  /\ Happened("cudaMemcpyDeviceToHost", 0)
                  /\ Pos("cudaMemcpyDeviceToHost", 0) <= p
        /\ \A k \in 0 .. (NumEntries - 1) :
              /\ Happened("AllReduce", k) =>
                    /\ k + 1 < NumEntries =>
                          Before("CopyGPUToCPUAsync", k + 1, "AllReduce", k)
                    /\ k > 0 =>
                          /\ Before("CopyGPUToCPUAsync", k, "WaitForCopyGPUToCPUAsync", k)
                          /\ Before("AllReduce", k - 1, "AllReduce", k)
                    /\ Before("WaitForCopyGPUToCPUAsync", k, "AllReduce", k)
              /\ Happened("CopyCPUToGPUAsync", k) =>
                    Before("AllReduce", k, "CopyCPUToGPUAsync", k)
              /\ Happened("return", 0) =>
                    /\ Before("CopyCPUToGPUAsync", k, "WaitForCopyCPUToGPUAsync", k)
                    /\ Before("WaitForCopyCPUToGPUAsync", k, "return", 0)
        /\ \A k \in 1 .. Len(impl.reductions) :
              /\ impl.reductions[k].entry = m_gradientIndexToAggregate[mainRank][k]
              /\ impl.reductions[k].count =
                    GetNumElements(EntryMatrix(Working(mainRank), impl.reductions[k].entry))
        /\ CountOf("AllReduce") <= NumEntries
        /\ Happened("return", 0) => CountOf("AllReduce") = NumEntries
C27_Witness ==
    /\ TransportBranch = "staged"
    /\ NumEntries = NumGrads
    /\ Happened("return", 0)
    /\ Before("CopyGPUToCPUAsync", 1, "AllReduce", 0)

\* the reduction of the packed buffer, entry 0 of m_gradientIndexToAggregate, has
\* been issued and has completed before the call at position p of the log: the
\* stream sync with NCCL, the waits for every copy back in the staged pipeline, the
\* waits for every all-reduce request on CPU, the blocking all-reduce with GDR
BufferReducedBefore(p) ==
    LET Done(kind, index) == Happened(kind, index) /\ Pos(kind, index) < p IN
    IF TransportBranch = "nccl"
    THEN Before("ncclAllReduce", 0, "ncclSync", 0) /\ Done("ncclSync", 0)
    ELSE IF TransportBranch = "staged"
    THEN /\ Before("AllReduce", 0, "CopyCPUToGPUAsync", 0)
         /\ \A k \in 0 .. (NumEntries - 1) :
               /\ Before("CopyCPUToGPUAsync", k, "WaitForCopyCPUToGPUAsync", k)
               /\ Done("WaitForCopyCPUToGPUAsync", k)
    ELSE IF TransportBranch = "iallreduce"
    THEN \A k \in 0 .. (NumEntries - 1) :
            Before("Iallreduce", k, "Wait", k) /\ Done("Wait", k)
    ELSE IF TransportBranch = "allreduce"
    THEN Done("AllReduce", 0)
    ELSE FALSE

\* C28: on every transport branch the packed buffer is copied back into the packed
\* gradients only after its reduction has completed; no packed gradient receives a
\* slice that is not reduced
C28_UnpackAfterReduction ==
    \A p \in 1 .. Len(impl.events) :
        impl.events[p].kind = "Unpack" => BufferReducedBefore(p)

\* off the branch GDR on CPU without NCCL the copy back follows the completed
\* reduction of the packed buffer
UnpackAfterReductionOffSkip ==
    TransportBranch # "skip" => C28_UnpackAfterReduction

\* the element count of the k-th packed gradient of rank r (k from 1), and the sum
\* of the element counts of the packed gradients before it
PackedCount(r, k) == GetNumElements(Working(r).g[m_packedGradientsIndex[r][k] + 1])
RECURSIVE PackedOffset(_, _)
PackedOffset(r, k) == IF k <= 1 THEN 0 ELSE PackedOffset(r, k - 1) + PackedCount(r, k - 1)
\* the contiguous buffer of rank r with every element marked by its index
MarkedBuffer(r) ==
    [Working(r) EXCEPT !.buf.data = [j \in 1 .. Len(@) |-> 1000 + j]]

\* C29: packing and unpacking use the same layout: the slice of the k-th packed
\* gradient starts at the sum of the element counts of the packed gradients before
\* it and has its element count; the slices are pairwise disjoint, lie inside the
\* buffer and cover its length; unpack after pack leaves every packed gradient as it
\* was
C29_PackLayout ==
    \A r \in Ranks :
        (m_initialized[r] /\ m_aggregationBuffer[r] # NULL /\ pc[r] \in {"idle", "impl"}) =>
            LET n == Len(m_packedGradientsIndex[r])
                l == Working(r)
                size == GetNumElements(m_aggregationBuffer[r])
                packed == Pack(l, r)
                unpacked == Unpack(MarkedBuffer(r), r)
            IN /\ n > 0
               /\ PackedOffset(r, n) + PackedCount(r, n) = size
               /\ \A k \in 1 .. n :
                     /\ PackedCount(r, k) > 0
                     /\ PackedOffset(r, k) + PackedCount(r, k) <= size
                     /\ \A k2 \in (k + 1) .. n :
                           PackedOffset(r, k) + PackedCount(r, k) <= PackedOffset(r, k2)
                     /\ \A j \in 1 .. PackedCount(r, k) :
                           /\ packed.buf.data[PackedOffset(r, k) + j] =
                                 l.g[m_packedGradientsIndex[r][k] + 1].data[j]
                           /\ unpacked.g[m_packedGradientsIndex[r][k] + 1].data[j] =
                                 1000 + PackedOffset(r, k) + j
               /\ Unpack(packed, r).g = l.g
\* a rank in an aggregation packs two gradients with values that differ
C29_Witness ==
    \E r \in Ranks :
        /\ pc[r] = "impl" /\ impl.stage = "idle"
        /\ m_aggregationBuffer[r] # NULL
        /\ Len(m_packedGradientsIndex[r]) = NumGrads
        /\ gradients[r][1].data[1] # gradients[r][NumGrads].data[1]

\* the calls that issue a gradient reduction
ReductionKinds == {"AllReduce", "Iallreduce", "ncclAllReduce"}
\* the call has been made before position p of the log
DoneBefore(kind, index, p) == Happened(kind, index) /\ Pos(kind, index) < p

\* C30: in each aggregation the header exchange is posted before any gradient
\* reduction is issued (every receive of the main rank and the send of the other
\* ranks); the header is broadcast only after the main rank has folded the headers of
\* all other ranks; a rank other than the main one returns only after its header send
\* has completed
C30_HeaderOrder ==
    /\ \A p \in 1 .. Len(impl.events) :
          /\ impl.events[p].kind \in ReductionKinds =>
                /\ \A j \in 0 .. (NumProc - 2) : DoneBefore("Irecv", j, p)
                /\ NumProc > 1 => DoneBefore("Isend", 0, p)
          /\ impl.events[p].kind = "Bcast" =>
                /\ \A j \in 0 .. (NumProc - 2) :
                      /\ Before("Irecv", j, "Waitany", j)
                      /\ Before("Waitany", j, "Aggregate", j)
                      /\ DoneBefore("Aggregate", j, p)
                /\ \A q \in 1 .. Len(impl.events) :
                      impl.events[q].kind \in {"Waitany", "Aggregate"} => q < p
          /\ (impl.events[p].kind = "return" /\ NumProc > 1) =>
                /\ Before("Isend", 0, "WaitSend", 0)
                /\ DoneBefore("WaitSend", 0, p)
    /\ impl.stage = "finish" =>
          /\ impl.numNodesHeadersReceivedFrom = NumProc - 1
          /\ impl.recvHeaderRequests = {}
          /\ CountOf("Aggregate") = NumProc - 1
    /\ impl.stage \in {"reduce", "fold", "finish"} =>
          /\ \A j \in 0 .. (NumProc - 2) : Happened("Irecv", j)
          /\ NumProc > 1 => Happened("Isend", 0)
          /\ ~Happened("Bcast", 0)
\* an aggregation of two ranks has reduced gradients, folded a header and returned
C30_Witness ==
    /\ NumProc = 2
    /\ Happened("return", 0)
    /\ Happened("Aggregate", 0)
    /\ \E p \in 1 .. Len(impl.events) : impl.events[p].kind \in ReductionKinds
    /\ \E r \in Ranks : r # mainRank /\ retval[r] # NoRet

\* the world sizes over which the source computation is checked on its own
MaxWorld == 5
\* the sources of the receives the main rank m posts for slots 0 .. W-2
RecvSources(W, m) == [j \in 0 .. (W - 2) |-> RecvSource(j, m)]
\* the receives of main rank m in a world of W ranks name every other rank once
SourcesArePeers(W, m) ==
    LET src == RecvSources(W, m) IN
    /\ \A j \in 0 .. (W - 2) : src[j] # m /\ src[j] \in 0 .. (W - 1)
    /\ \A j1, j2 \in 0 .. (W - 2) : src[j1] = src[j2] => j1 = j2
    /\ {src[j] : j \in 0 .. (W - 2)} = (0 .. (W - 1)) \ {m}

\* C31: on the main rank m of W ranks the W-1 receives posted for slots 0 .. W-2
\* have pairwise distinct sources that are exactly the ranks 0 .. W-1 without m, for
\* every m in 0 .. W-1; in both rendezvous the header folded from slot j is the one
\* of that source
C31_RecvSources ==
    /\ \A W \in 1 .. MaxWorld : \A m \in 0 .. (W - 1) : SourcesArePeers(W, m)
    /\ SourcesArePeers(NumProc, mainRank)
    /\ \A j \in 0 .. (NumProc - 2) :
          Happened("Irecv", j) => RecvSource(j, mainRank) \in Ranks \ {mainRank}
\* the main rank is not rank 0 and has folded the header received in slot 0
C31_Witness ==
    /\ NumProc = 2
    /\ mainRank = 1
    /\ Before("Irecv", 0, "Aggregate", 0)
    /\ RecvSource(0, mainRank) = 0

\* how many times the call has been made in the aggregation
Times(kind, index) ==
    Cardinality({p \in 1 .. Len(impl.events) : impl.events[p] = Event(kind, index)})
\* the slots whose header the main rank has folded
FoldedSlots == {j \in 0 .. (NumProc - 2) : Happened("Aggregate", j)}

\* C32: the wait-any loop of the main rank folds the header of each peer exactly
\* once and ends after exactly NumProc - 1 folds; the header is broadcast only with
\* all peers folded in, also after a wait-any that reported MPI_UNDEFINED: no partly
\* aggregated header is broadcast
C32_FoldAllOnce ==
    /\ \A j \in 0 .. (NumProc - 2) : Times("Waitany", j) <= 1 /\ Times("Aggregate", j) <= 1
    /\ impl.stage \in {"fold", "finish"} =>
          /\ impl.numNodesHeadersReceivedFrom = Cardinality(FoldedSlots)
          /\ impl.recvHeaderRequests = (0 .. (NumProc - 2)) \ FoldedSlots
          /\ CountOf("Aggregate") = Cardinality(FoldedSlots)
    /\ impl.stage = "fold" => Cardinality(FoldedSlots) < NumProc - 1
    /\ impl.stage = "finish" =>
          /\ FoldedSlots = 0 .. (NumProc - 2)
          /\ ImplHeader(mainRank) = SumOfHeaders(calls[mainRank])
    /\ Happened("Bcast", 0) =>
          /\ \A j \in 0 .. (NumProc - 2) : Times("Aggregate", j) = 1
          /\ SyncReturned => \A r \in Ranks : headerCPU[r] = SumOfHeaders(calls[r])

\* the orders in which the receives of slots 0 .. NumProc-2 can complete
CompletionOrders ==
    {o \in [1 .. (NumProc - 1) -> 0 .. (NumProc - 2)] :
        \A a, b \in 1 .. (NumProc - 1) : o[a] = o[b] => a = b}
\* the header of the main rank after folding the headers of call k in order o, from
\* position n on
RECURSIVE FoldInOrder(_, _, _, _)
FoldInOrder(h, o, n, k) ==
    IF n > Len(o) THEN h
    ELSE FoldInOrder(HeaderAggregate(h, submitted[RecvSource(o[n], mainRank)][k]), o, n + 1, k)
\* every rank is in call k of the pipeline
AllInCall(k) == \A r \in Ranks : pc[r] = "impl" /\ calls[r] = k

\* C33: the aggregated header does not depend on the order in which the headers of
\* the peers complete: folding them in any order gives the header the main rank has
\* after the loop; the fold resets the slot it read, so every slot is clear when the
\* next aggregation starts and nothing of one iteration is added to the next
C33_OrderIndependent ==
    /\ \A k \in 1 .. MaxIter : (~m_useAsyncAggregation /\ NumProc >= 2 /\ AllInCall(k)) =>
          /\ \A o1, o2 \in CompletionOrders :
                FoldInOrder(submitted[mainRank][k], o1, 1, k) =
                    FoldInOrder(submitted[mainRank][k], o2, 1, k)
          /\ impl.stage = "finish" =>
                \A o \in CompletionOrders :
                    headerCPU[mainRank] = FoldInOrder(submitted[mainRank][k], o, 1, k)
    /\ \A j \in 0 .. (NumProc - 2) :
          ((m_initialized[mainRank] /\ impl.stage \in {"idle", "finish"})
                \/ (impl.stage = "fold" /\ Happened("Aggregate", j))) =>
              m_recvHeaders[mainRank][j + 1] = HeaderCreate(NumEvalNode)

\* the slots in the order in which the main rank has folded them
FoldedOrder ==
    LET folds == SelectSeq(impl.events, LAMBDA e : e.kind = "Aggregate")
    IN [n \in 1 .. Len(folds) |-> folds[n].index]
\* two floating-point sums of the same NumProc terms differ by rounding only
WithinRounding(a, b) ==
    LET hi == IF a > b THEN a ELSE b
        lo == IF a > b THEN b ELSE a
    IN hi - lo <= (NumProc - 1) * Ulp(hi, 1)
\* every floating-point sum of the headers of call k is exact
ExactSums(k) ==
    /\ SumOfHeaders(k).criterion < FExact
    /\ \A e \in 1 .. NumEvalNode : SumOfHeaders(k).evalErrors[e][1] < FExact
\* the slots of the headers the main rank has folded are clear, and all of them are
\* between two aggregations
SlotsReset ==
    \A j \in 0 .. (NumProc - 2) :
        ((m_initialized[mainRank] /\ impl.stage \in {"idle", "finish"})
              \/ (impl.stage = "fold" /\ Happened("Aggregate", j))) =>
            m_recvHeaders[mainRank][j + 1] = HeaderCreate(NumEvalNode)

\* C33 as the code has it: for every two orders of completion the integer fields of
\* the aggregated header are the same and its floating-point fields agree up to
\* rounding, exactly so when every sum is representable; the header after the loop
\* is the fold in the order that occurred; the fold resets the slot it read, so
\* nothing of one iteration is added to the next
C33_OrderTolerant ==
    /\ \A k \in 1 .. MaxIter : (~m_useAsyncAggregation /\ NumProc >= 2 /\ AllInCall(k)) =>
          /\ \A o1, o2 \in CompletionOrders :
                LET a == FoldInOrder(submitted[mainRank][k], o1, 1, k)
                    b == FoldInOrder(submitted[mainRank][k], o2, 1, k)
                IN /\ a.numSamples = b.numSamples
                   /\ a.numSamplesWithLabel = b.numSamplesWithLabel
                   /\ WithinRounding(a.criterion, b.criterion)
                   /\ \A e \in 1 .. NumEvalNode :
                         /\ a.evalErrors[e][2] = b.evalErrors[e][2]
                         /\ WithinRounding(a.evalErrors[e][1], b.evalErrors[e][1])
                   /\ ExactSums(k) => a = b /\ a = SumOfHeaders(k)
          /\ impl.stage = "finish" =>
                /\ Len(FoldedOrder) = NumProc - 1
                /\ headerCPU[mainRank] = FoldInOrder(submitted[mainRank][k], FoldedOrder, 1, k)
    /\ SlotsReset
\* three ranks in their second aggregation, the loop ended: the header of the
\* second slot was folded first, and the other order gives another criterion
C33_Witness ==
    /\ NumProc = 3
    /\ AllInCall(2)
    /\ impl.stage = "finish"
    /\ FoldedOrder = <<1, 0>>
    /\ headerCPU[mainRank].criterion #
            FoldInOrder(submitted[mainRank][2], <<0, 1>>, 1, 2).criterion

\* every rank is in the rendezvous of AsyncAggregateGradHeader
InHeaderRendezvous == \A r \in Ranks : pc[r] = "hdr"

\* C34: in both header rendezvous the tag of the send of every rank other than the
\* main one equals the tag of the receive the main rank posted for it, and is the
\* gradient count; so every posted receive is matched, whatever the headers of the
\* ranks are, and the rendezvous completes on all ranks
C34_TagsEqual ==
    /\ (impl.stage \in {"reduce", "fold", "finish"} /\ NumProc >= 2) =>
          \A r \in Ranks : PipelineTag(r) = PipelineTag(mainRank) /\ PipelineTag(r) = NumGrads
    /\ InHeaderRendezvous =>
          /\ \A r \in Ranks : HeaderTag(r) = HeaderTag(mainRank)
          /\ ENABLED AsyncAggregateGradHeaderImpl
\* the tags of the gradient pipeline are equal on all ranks and are the gradient count
PipelineTagsEqual ==
    (impl.stage \in {"reduce", "fold", "finish"} /\ NumProc >= 2) =>
        \A r \in Ranks : PipelineTag(r) = PipelineTag(mainRank) /\ PipelineTag(r) = NumGrads

\* ranks r and q have both returned from their call number k in async mode
BothReturned(r, q, k) ==
    /\ AsyncReturned(r) /\ AsyncReturned(q)
    /\ calls[r] = k /\ calls[q] = k

\* C35: in async mode, the ranks calling AggregateGradients equally often with the
\* same resetState flags, in every iteration either every rank dispatches a reduction
\* or none does, whatever the sample counts of the ranks are; so no task waits in a
\* collective that the task of another rank does not enter
C35_DispatchAgreed ==
    \A r, q \in Ranks : \A k \in 1 .. MaxIter :
        BothReturned(r, q, k) => retval[r] = retval[q]
\* the ranks agree in the first iteration, and in a later one called with resetState
DispatchAgreedFirstOrReset ==
    \A r, q \in Ranks : \A k \in 1 .. MaxIter :
        (BothReturned(r, q, k) /\ (k = 1 \/ (resetState[r] /\ resetState[q]))) =>
            retval[r] = retval[q]

\* C36: in async mode on an initialized aggregator a call with resetState = true
\* ends in the fatal logic error iff the preceding call of the rank dispatched a task
\* (returned true), whether that task has finished or not, and goes on iff the
\* preceding call returned false; the first call never raises the error
C36_ResetAfterDispatch ==
    [][\A r \in Ranks :
        (m_useAsyncAggregation /\ NumProc >= 2 /\ calls'[r] # calls[r]) =>
            /\ (m_initialized[r] /\ resetState'[r]) =>
                  /\ pc'[r] = "fatal" <=> retval[r] = Ret(TRUE)
                  /\ pc'[r] = "join" <=> retval[r] = Ret(FALSE)
                  /\ pc'[r] \in {"fatal", "join"}
            /\ ~m_initialized[r] => (calls[r] = 0 /\ pc'[r] = "join")]_vars
\* a rank has ended in the logic error in its second call although the task its
\* first call dispatched had finished
C36_Witness ==
    \E r \in Ranks :
        /\ m_useAsyncAggregation /\ NumProc >= 2
        /\ pc[r] = "fatal"
        /\ calls[r] = 2
        /\ resetState[r]
        /\ m_pendingAsyncAggregation[r] = 1
        /\ tasks[r] = {}

\* the slot indices the staged pipeline has used for a copy, a wait or an all-reduce
UsedSlots ==
    {impl.events[p].index : p \in {q \in 1 .. Len(impl.events) :
                                        impl.events[q].kind \in StagedKinds}}

\* C37: whenever the staged branch runs, every rank has as many pinned staging
\* buffers (and data transferers, created with them) as m_gradientIndexToAggregate
\* has entries, the entry for the contiguous buffer included; slot k holds at least
\* the elements of entry k, the packed total for the contiguous buffer; and every
\* slot index the pipeline uses for a copy, a wait or an all-reduce is below that
\* number
C37_StagingSlots ==
    (TransportBranch = "staged" /\ NumProc >= 2) =>
        /\ \A r \in Ranks : m_initialized[r] =>
              LET idx == m_gradientIndexToAggregate[r]
                  cpu == m_intermediateCPUBuffers[r]
              IN /\ Len(cpu) = Len(idx)
                 /\ \A k \in 1 .. Len(idx) :
                       Len(cpu[k]) >= GetNumElements(EntryMatrix(Working(r), idx[k]))
                 /\ \A k \in 1 .. Len(idx) :
                       idx[k] = NONE => Len(cpu[k]) = GetNumElements(m_aggregationBuffer[r])
        /\ \A s \in UsedSlots : s < Len(m_intermediateCPUBuffers[mainRank])
        /\ impl.stage = "reduce" =>
              /\ impl.allReduceIndex < NumEntries
              /\ impl.i <= NumEntries => impl.gpuToCpuIndex <= NumEntries
\* a staged aggregation over the contiguous buffer and a gradient has returned,
\* having used both slots
C37_Witness ==
    /\ TransportBranch = "staged"
    /\ NumProc >= 2
    /\ Happened("return", 0)
    /\ m_gradientIndexToAggregate[mainRank] = <<NONE, NumGrads - 1>>
    /\ UsedSlots = {0, 1}
    /\ Len(m_intermediateCPUBuffers[mainRank][1]) < Len(m_intermediateCPUBuffers[mainRank][2])

\* thread t is in wait_and_pop, awake, and has still to test the queue
AwakePopper(t) == qop[t].op = "wait_and_pop" /\ qpc[t] \in {"lock", "locked"}
\* what the queue holds is what was pushed and not popped, in push order; the mutex
\* is held by the one thread that is inside an operation; a thread is blocked in the
\* condition variable only inside wait_and_pop; while a thread is blocked there, a
\* thread in wait_and_pop is awake for every value in the queue
QueueInv ==
    /\ pushed = popped \o data_queue
    /\ \A i, j \in 1 .. Len(pushed) : pushed[i] = pushed[j] => i = j
    /\ \A t \in Threads : (qpc[t] = "locked") <=> (mut = t)
    /\ \A t \in Threads : (t \in data_cond) <=> (qpc[t] = "wait")
    /\ \A t \in data_cond : qop[t].op = "wait_and_pop"
    /\ data_cond # {} =>
          Len(data_queue) <= Cardinality({t \in Threads : AwakePopper(t)})
\* the step of thread t that ends its operation
Returns(t) == qpc[t] = "locked" /\ qpc'[t] = "done"
\* what the operations return: a pop gives the caller the oldest value of the queue
\* and removes it; try_pop on an empty queue returns false and changes neither the
\* queue nor its output argument; empty returns whether the queue is empty
QueueReturns ==
    \A t \in Threads : Returns(t) =>
        /\ (qop[t].op \in {"try_pop", "wait_and_pop"} /\ data_queue # <<>>) =>
              /\ value'[t] = Head(data_queue)
              /\ data_queue' = Tail(data_queue)
              /\ qop[t].op = "try_pop" => qret'[t] = Ret(TRUE)
        /\ (qop[t].op = "try_pop" /\ data_queue = <<>>) =>
              /\ qret'[t] = Ret(FALSE)
              /\ data_queue' = data_queue
              /\ value'[t] = value[t]
        /\ qop[t].op = "wait_and_pop" => data_queue # <<>>
        /\ qop[t].op = "empty" =>
              (qret'[t] = Ret(data_queue = <<>>) /\ data_queue' = data_queue)
        /\ qop[t].op = "push" => data_queue' = Append(data_queue, qop[t].arg)

\* C38: threadsafe_queue is a linearizable FIFO under any interleaving of push,
\* try_pop, wait_and_pop and empty from several threads: every operation takes effect
\* in one step under the mutex; every pushed value is popped at most once and the
\* values are popped in push order; try_pop on an empty queue returns false and
\* changes neither the queue nor its output argument; no wake-up is lost: a thread
\* does not stay blocked in wait_and_pop while the queue holds a value
C38_LinearizableFifo ==
    /\ []QueueInv
    /\ [][QueueReturns]_vars
    /\ \A t \in Threads :
          (t \in data_cond /\ data_queue # <<>>) ~> (t \notin data_cond \/ data_queue = <<>>)
\* a thread that was blocked in wait_and_pop has returned with the value pushed
\* after it blocked, while another thread found the queue empty with try_pop
C38_Witness ==
    \E t, u \in Threads :
        /\ t # u
        /\ qop[t].op = "wait_and_pop" /\ qpc[t] = "done" /\ value[t] = 3
        /\ offered = <<"wait_and_pop", "try_pop", "push", "push">>
        /\ qop[u].op = "try_pop" /\ qret[u] = Ret(FALSE) /\ value[u] = NoValue
        /\ popped = <<3>>
        /\ data_queue = <<4>>

\* the numbers of the offered nodes that are pushed in a world of two ranks or more,
\* and of the nodes among s that are reduced, in order
NeedsGradient(n) == offered[n].needsGradient
UpdateRequired(n) == offered[n].updateRequired
ToPush == SelectSeq([n \in 1 .. Len(offered) |-> n], NeedsGradient)
ToReduce(s) == SelectSeq(s, UpdateRequired)
\* s is the beginning of q
IsPrefix(s, q) == Len(s) <= Len(q) /\ \A i \in 1 .. Len(s) : s[i] = q[i]
ThreadExited == tpc[Consumer] = "exit"
\* 1 while the node dequeued last is not yet handled by the thread, else 0
Reducing == IF tpc[Consumer] = "popped" /\ Idle(Consumer) /\ value[Consumer] # NoValue THEN 1 ELSE 0
ThreadInv ==
    /\ tpc[Consumer] # "crashed"
    /\ IsPrefix(popped, pushed)
    /\ reducedNodes = ToReduce(SubSeq(popped, 1, Len(popped) - Reducing))
    /\ NumProc >= 2 =>
          /\ IsPrefix(pushed, ToPush)
          /\ ThreadExited =>
                /\ asyncMpiFlag
                /\ data_queue = <<>>
                /\ \A t \in Threads : Idle(t)
                /\ pushed = ToPush
                /\ popped = pushed
                /\ reducedNodes = ToReduce(pushed)
    /\ NumProc = 1 =>
          /\ pushed = <<>> /\ data_queue = <<>> /\ reducedNodes = <<>>
          /\ \A t \in Threads : Idle(t)
          /\ tpc[Consumer] \in {"start", "exit"}
\* C39: in a world of two ranks or more, with a producer that sets the stop flag after
\* its last push returned, BackpropAsyncMpiThread is at its exit only with the flag set
\* and the queue empty, every pushed node was then dequeued exactly once and the nodes
\* that need it were reduced in push order, and once the flag is set the thread exits;
\* in a world of one rank nothing is enqueued and the first step of the thread returns
C39_ThreadDrains ==
    /\ []ThreadInv
    /\ asyncMpiFlag ~> ThreadExited
\* the thread exited in a world of two ranks after three nodes were offered: one that
\* needs no gradient, one that is reduced and one that is dequeued but not reduced
C39_Witness ==
    /\ NumProc = 2
    /\ ThreadExited
    /\ Len(offered) = NumNodes
    /\ Len(popped) = 2
    /\ Len(reducedNodes) = 1

\* a case was just evaluated; its error was over the threshold
CaseDone == testIndex' = testIndex + 1
CaseFailed == ~avSqrErr'.thrown /\ avSqrErr'.num > ErrThreshold * avSqrErr'.den
CaseCounted ==
    /\ CaseDone => numFailed' = numFailed + (IF CaseFailed THEN 1 ELSE 0)
    /\ CaseDone => runNumFailed' = runNumFailed /\ testResult' = testResult
    /\ (testConfig' # testConfig) => runNumFailed' = runNumFailed + numFailed
TestsDone == testResult # Running
ShapesDiffered == avSqrErr.thrown
AllConfigsRan == testConfig = NumConfigs + 1
\* C40 as stated: a case is counted as failed iff its average squared error exceeds
\* 1e-5, and RunDynamiteTests ends in a logic error iff the failures summed over the
\* three configurations are more than 0
C40_LogicErrorIffFailures ==
    TestsDone => (testResult = LogicError <=> runNumFailed > 0)
\* C40: a case is counted as failed iff its average squared error exceeds 1e-5, the
\* gradient check changes no count, and RunDynamiteTests ends in a logic error iff a
\* case returned a result whose shape differs from the reference (raised at once, the
\* remaining cases are not run) or the failures summed over the three configurations
\* are more than 0
C40_FailureCount ==
    /\ [][CaseCounted]_vars
    /\ [](TestsDone =>
            /\ ShapesDiffered \/ AllConfigsRan
            /\ testResult = LogicError <=> (ShapesDiffered \/ runNumFailed > 0))
\* all three configurations ran, the last case had an error under the threshold and
\* was not counted, one earlier case was, and the run ended in a logic error
C40_Witness ==
    /\ testResult = LogicError
    /\ AllConfigsRan
    /\ runNumFailed = 1
    /\ avSqrErr = [thrown |-> FALSE, num |-> 4, den |-> 1]
====
